---- MODULE Spec2Model ----
(***************************************************************************)
(* A model of post.py (DSKSD/sparc): text alignment, metadata extraction   *)
(* and filtering, the concurrent index build write_hdf5, and the two       *)
(* prediction writers write_predictions and write_predictions_nq.          *)
(*                                                                         *)
(* Conventions.  A Python string is a sequence of one-character strings.   *)
(* A Python list or array is a sequence; the element with Python index i   *)
(* is s[i+1] (At(s, i)).  A Python dict is a function on its key set.      *)
(* An optional value is a set: None is {} and a present value x is {x}.    *)
(* A call that may raise returns [ok |-> TRUE, val |-> v] or               *)
(* [ok |-> FALSE, exc |-> name].                                           *)
(***************************************************************************)
EXTENDS Integers, Sequences, FiniteSets, TLC

\* ------------------------------------------------------------------ basics

None == {}
Some(x) == {x}
IsNone(o) == o = {}
The(o) == CHOOSE x \in o : TRUE

Ok(v) == [ok |-> TRUE, val |-> v]
Raise(e) == [ok |-> FALSE, exc |-> e]

At(s, i) == s[i + 1]
Min2(a, b) == IF a <= b THEN a ELSE b
Max2(a, b) == IF a >= b THEN a ELSE b
\* s[a:b] of Python, for 0 <= a
Slice(s, a, b) == SubSeq(s, a + 1, Min2(b, Len(s)))
\* range(a, b) of Python as a sequence
PyRange(a, b) == [k \in 1..Max2(b - a, 0) |-> a + k - 1]

RECURSIVE Concat(_)
Concat(ss) == IF ss = <<>> THEN <<>> ELSE Head(ss) \o Concat(Tail(ss))

RECURSIVE SumSeq(_)
SumSeq(s) == IF s = <<>> THEN 0 ELSE Head(s) + SumSeq(Tail(s))

RECURSIVE MaxSeq(_)
MaxSeq(s) == IF Len(s) = 1 THEN s[1] ELSE Max2(s[1], MaxSeq(Tail(s)))

\* ------------------------------------------------------------------ strings

IsSpace(c) == c = " "
IsPunct(c) == c \in {".", "#", "(", ")", "-"}
Lower(c) == IF c = "A" THEN "a" ELSE IF c = "B" THEN "b" ELSE c

RECURSIVE str_join(_, _)
str_join(sep, words) ==
  IF words = <<>> THEN <<>>
  ELSE IF Len(words) = 1 THEN words[1]
  ELSE words[1] \o sep \o str_join(sep, Tail(words))

\* str.find
str_find(s, p) ==
  LET hits == {i \in 0..(Len(s) - Len(p)) : SubSeq(s, i + 1, i + Len(p)) = p}
  IN IF hits = {} THEN -1 ELSE CHOOSE i \in hits : \A j \in hits : i <= j

\* str.replace(old, "")
RECURSIVE str_remove(_, _)
str_remove(s, old) ==
  IF Len(s) < Len(old) THEN s
  ELSE IF SubSeq(s, 1, Len(old)) = old
       THEN str_remove(SubSeq(s, Len(old) + 1, Len(s)), old)
       ELSE <<s[1]>> \o str_remove(Tail(s), old)

\* str.split()
RECURSIVE str_split_acc(_, _, _)
str_split_acc(s, cur, out) ==
  IF s = <<>> THEN (IF cur = <<>> THEN out ELSE Append(out, cur))
  ELSE IF IsSpace(s[1])
       THEN str_split_acc(Tail(s), <<>>, IF cur = <<>> THEN out ELSE Append(out, cur))
       ELSE str_split_acc(Tail(s), Append(cur, s[1]), out)
str_split(s) == str_split_acc(s, <<>>, <<>>)

\* str.strip()
RECURSIVE str_lstrip(_)
str_lstrip(s) == IF s # <<>> /\ IsSpace(s[1]) THEN str_lstrip(Tail(s)) ELSE s
RECURSIVE str_rstrip(_)
str_rstrip(s) ==
  IF s # <<>> /\ IsSpace(s[Len(s)]) THEN str_rstrip(SubSeq(s, 1, Len(s) - 1)) ELSE s
str_strip(s) == str_rstrip(str_lstrip(s))

\* tokenization.BasicTokenizer: whitespace split, optional lower-casing, every
\* punctuation character a token of its own
RECURSIVE run_split_on_punc(_, _, _)
run_split_on_punc(w, cur, out) ==
  IF w = <<>> THEN (IF cur = <<>> THEN out ELSE Append(out, cur))
  ELSE IF IsPunct(w[1])
       THEN run_split_on_punc(Tail(w), <<>>,
              Append(IF cur = <<>> THEN out ELSE Append(out, cur), <<w[1]>>))
       ELSE run_split_on_punc(Tail(w), Append(cur, w[1]), out)

RECURSIVE tokenize_words(_, _)
tokenize_words(words, do_lower_case) ==
  IF words = <<>> THEN <<>>
  ELSE LET w == words[1]
           lw == IF do_lower_case THEN [i \in 1..Len(w) |-> Lower(w[i])] ELSE w
       IN run_split_on_punc(lw, <<>>, <<>>) \o tokenize_words(Tail(words), do_lower_case)

\* "^" stands for a control character, which the tokenizer removes from the
\* text before it splits it
clean_text(text) == SelectSeq(text, LAMBDA c : c # "^")

BasicTokenizer_tokenize(text, do_lower_case) ==
  tokenize_words(str_split(clean_text(text)), do_lower_case)

\* _strip_spaces: the text without its spaces, and for each kept character
\* its Python index in the text (ns_to_s_map as a sequence)
RECURSIVE strip_spaces_map(_, _)
strip_spaces_map(text, n) ==
  IF n = 0 THEN <<>>
  ELSE strip_spaces_map(text, n - 1) \o (IF IsSpace(text[n]) THEN <<>> ELSE <<n - 1>>)

strip_spaces(text) ==
  LET m == strip_spaces_map(text, Len(text))
  IN [ns_text |-> [k \in 1..Len(m) |-> At(text, m[k])], ns_to_s_map |-> m]

\* the alignment shared by get_final_text and nq_get_final_text: the
\* character range of orig_text that pred_text projects to, or failure
align_span(pred_text, orig_text, do_lower_case) ==
  LET tok_text == str_join(<<" ">>, BasicTokenizer_tokenize(orig_text, do_lower_case))
      start_position == str_find(tok_text, pred_text)
      end_position == start_position + Len(pred_text) - 1
      orig_ns == strip_spaces(orig_text)
      tok_ns == strip_spaces(tok_text)
      \* tok_s_to_ns_map: index in tok_text -> index in the stripped text
      tok_keys == {tok_ns.ns_to_s_map[k] : k \in 1..Len(tok_ns.ns_to_s_map)}
      tok_s_to_ns(p) == (CHOOSE k \in 1..Len(tok_ns.ns_to_s_map) :
                           tok_ns.ns_to_s_map[k] = p) - 1
      mapped(p) == p \in tok_keys /\ tok_s_to_ns(p) < Len(orig_ns.ns_to_s_map)
      project(p) == At(orig_ns.ns_to_s_map, tok_s_to_ns(p))
  IN IF start_position = -1 THEN [found |-> FALSE, s |-> 0, e |-> 0]
     ELSE IF Len(orig_ns.ns_text) # Len(tok_ns.ns_text) THEN [found |-> FALSE, s |-> 0, e |-> 0]
     ELSE IF ~mapped(start_position) THEN [found |-> FALSE, s |-> 0, e |-> 0]
     ELSE IF ~mapped(end_position) THEN [found |-> FALSE, s |-> 0, e |-> 0]
     ELSE [found |-> TRUE, s |-> project(start_position), e |-> project(end_position)]

\* offsets with the end on the last character instead of past it
get_final_text_inclusive(pred_text, orig_text, do_lower_case) ==
  LET a == align_span(pred_text, orig_text, do_lower_case)
  IN IF a.found THEN <<a.s, a.e>> ELSE <<0, Len(orig_text)>>

\* get_final_text: (start, end) offsets into orig_text
get_final_text(pred_text, orig_text, do_lower_case) ==
  LET a == align_span(pred_text, orig_text, do_lower_case)
  IN IF a.found THEN <<a.s, a.e + 1>> ELSE <<0, Len(orig_text)>>

\* nq_get_final_text: the projected text itself
nq_get_final_text(pred_text, orig_text, do_lower_case) ==
  LET a == align_span(pred_text, orig_text, do_lower_case)
  IN IF a.found THEN Slice(orig_text, a.s, a.e + 1) ELSE orig_text

\* the de-tokenisation both writers apply to a token span before alignment
detokenize(tok_tokens) ==
  LET joined == str_join(<<" ">>, tok_tokens)
      r1 == str_remove(joined, <<" ", "#", "#">>)
      r2 == str_remove(r1, <<"#", "#">>)
  IN str_join(<<" ">>, str_split(str_strip(r2)))

\* ------------------------------------------------- features and results

\* Boundary tokens ([CLS], [SEP]) of a window
CLS == <<"C">>
SEP == <<"S">>

\* A dict as a function; dict.get(key, default)
DictGet(d, key, default) == IF key \in DOMAIN d THEN d[key] ELSE default

\* The arrays a Result carries are inputs; their cells are tagged by the
\* Result's unique id and the cell's position, so that every cell of every
\* input array is distinguishable in the outputs.
res_start(r, i) == 1000 + 10 * r.unique_id + i
res_end(r, i) == 2000 + 10 * r.unique_id + i
res_span_logits(r, i, j) == 3000 + 100 * r.unique_id + 10 * i + j
res_start_sp(r, key, i, j) == 10000 * key + 100 * r.unique_id + 10 * i + j
feat_input_ids(f, i) == 500 + 10 * f.unique_id + i

\* ------------------------------------------------------- get_final_text_

get_final_text_(example, feature, start_index, end_index, do_lower_case) ==
  LET tok_tokens == Slice(feature.tokens, start_index, end_index + 1)
      orig_doc_start == feature.token_to_word_map[start_index]
      orig_doc_end == feature.token_to_word_map[end_index]
      orig_words == Slice(example.doc_words, orig_doc_start, orig_doc_end + 1)
      tok_text == detokenize(tok_tokens)
      orig_text == str_join(<<" ">>, orig_words)
      full_text == str_join(<<" ">>, example.doc_words)
      pos == get_final_text(tok_text, orig_text, do_lower_case)
      offset == SumSeq([k \in 1..orig_doc_start |-> Len(example.doc_words[k]) + 1])
  IN [full_text |-> full_text, start_pos |-> offset + pos[1], end_pos |-> offset + pos[2]]

\* ---------------------------------------------------------- get_metadata

\* a slice that also drops the last interior token
interior_short(f) == Max2(Len(f.tokens) - 3, 0)

\* rows a Feature contributes: the slice [1:len(tokens) - 1]
interior(f) == Max2(Len(f.tokens) - 2, 0)

\* result.start_sp[key][1:L-1, 1:L-1]
sparse_block(f, r, key) ==
  [i \in 1..interior(f) |-> [j \in 1..interior(f) |-> res_start_sp(r, key, i, j)]]

\* the zero map of nrows rows and the given width, with the blocks added at
\* their row offsets
sparse_stack(blocks, nrows, width) ==
  LET stacked ==
        Concat([k \in 1..Len(blocks) |->
                  [i \in 1..Len(blocks[k]) |->
                     [c \in 1..width |->
                        IF c <= Len(blocks[k][i]) THEN blocks[k][i][c] ELSE 0]]])
  IN [r \in 1..nrows |->
        IF r <= Len(stacked) THEN stacked[r] ELSE [c \in 1..width |-> 0]]

\* a table whose spans may end on the closing boundary token
span_rows_past_end(f, r, idx0, max_answer_length) ==
  [i \in 1..interior(f) |->
     LET idx == idx0 + i - 1
         js == {j \in i..(Min2(i + max_answer_length, Len(f.tokens)) - 1) : TRUE}
     IN [span |-> [c \in 1..max_answer_length |->
                     IF (i + c - 1) \in js THEN res_span_logits(r, i, i + c - 1) ELSE 0],
         s2e  |-> [c \in 1..max_answer_length |->
                     IF (i + c - 1) \in js THEN idx + c - 1 ELSE -1]]]

\* span_logits / start2end rows of one Feature, whose first row is row idx0
span_rows(f, r, idx0, max_answer_length) ==
  [i \in 1..interior(f) |->
     LET idx == idx0 + i - 1
         js == {j \in i..(Min2(i + max_answer_length, Len(f.tokens) - 1) - 1) : TRUE}
     IN [span |-> [c \in 1..max_answer_length |->
                     IF (i + c - 1) \in js THEN res_span_logits(r, i, i + c - 1) ELSE 0],
         s2e  |-> [c \in 1..max_answer_length |->
                     IF (i + c - 1) \in js THEN idx + c - 1 ELSE -1]]]

\* full_text as it stands when the offsets of Feature k are computed
PAR_SEP == <<" ", "[", "P", "A", "R", "]", " ">>
RECURSIVE full_text_at(_, _)
full_text_at(features, k) ==
  IF k = 1 THEN <<>>
  ELSE full_text_at(features, k - 1) \o
       (IF features[k].doc_span_index = 0
        THEN str_join(<<" ">>, features[k - 1].example.doc_words) \o PAR_SEP
        ELSE <<>>)

word2char_rows(features, k, do_lower_case) ==
  LET f == features[k]
      L == Len(f.tokens)
      base == Len(full_text_at(features, k))
  IN [i \in 1..interior(f) |->
        [s |-> get_final_text_(f.example, f, i, Min2(L - 2, i + 1), do_lower_case).start_pos + base,
         e |-> get_final_text_(f.example, f, Max2(1, i - 1), i, do_lower_case).end_pos + base]]

get_metadata(features, results, max_answer_length, do_lower_case) ==
  LET n == Len(features)
      Rows(cell(_, _)) ==
        Concat([k \in 1..n |-> [i \in 1..interior(features[k]) |-> cell(k, i)]])
      start == Rows(LAMBDA k, i : res_start(results[k], i))
      end == Rows(LAMBDA k, i : res_end(results[k], i))
      has_sp == ~IsNone(results[1].start_sp)
      keys == The(results[1].start_sp)
      input_ids == Rows(LAMBDA k, i : feat_input_ids(features[k], i))
      Blocks(key) == [k \in 1..n |-> sparse_block(features[k], results[k], key)]
      map_size == MaxSeq([k \in 1..n |-> Len(Blocks(1)[k])])
      Map(key) == sparse_stack(Blocks(key), Len(input_ids), map_size)
      len_per_para == IF has_sp THEN [k \in 1..n |-> Len(Blocks(1)[k])] ELSE <<>>
      curr_size == SumSeq(len_per_para)
      fs == Rows(LAMBDA k, i : results[k].filter_start_logits[i + 1])
      fe == Rows(LAMBDA k, i : results[k].filter_end_logits[i + 1])
      idx0(k) == SumSeq([m \in 1..(k - 1) |-> interior(features[m])])
      spans == Concat([k \in 1..n |->
                 span_rows(features[k], results[k], idx0(k), max_answer_length)])
      w2c == Concat([k \in 1..n |-> word2char_rows(features, k, do_lower_case)])
      prev_example == features[n].example
  IN IF n = 0 THEN Raise("ValueError")
     ELSE IF has_sp /\ \E k \in 1..n : IsNone(results[k].start_sp)
       THEN Raise("TypeError")
     ELSE IF has_sp /\ \E k \in 1..n : ~(keys \subseteq The(results[k].start_sp))
       THEN Raise("KeyError")
     ELSE IF has_sp /\ 1 \notin keys THEN Raise("TypeError")
     ELSE IF has_sp /\ ~(Len(input_ids) = Len(start) /\ curr_size = Len(Map(1)))
       THEN Raise("AssertionError")
     ELSE Ok(
       [did |-> prev_example.doc_idx,
        context |-> full_text_at(features, n)
                    \o str_join(<<" ">>, prev_example.doc_words),
        title |-> prev_example.title,
        start |-> start, end |-> end,
        span_logits |-> [k \in 1..Len(spans) |-> spans[k].span],
        start2end |-> [k \in 1..Len(spans) |-> spans[k].s2e],
        word2char_start |-> [k \in 1..Len(w2c) |-> w2c[k].s],
        word2char_end |-> [k \in 1..Len(w2c) |-> w2c[k].e],
        filter_start |-> fs, filter_end |-> fe,
        input_ids |-> IF has_sp THEN Some(input_ids) ELSE None,
        sparse |-> IF has_sp THEN Some(Map(1)) ELSE None,
        sparse_bi |-> IF has_sp /\ 2 \in keys THEN Some(Map(2)) ELSE None,
        sparse_tri |-> IF has_sp /\ 3 \in keys THEN Some(Map(3)) ELSE None,
        len_per_para |-> len_per_para])

\* ------------------------------------------------------- filter_metadata

\* np.where(a > threshold): the Python indices, ascending
RECURSIVE where_gt_upto(_, _, _)
where_gt_upto(a, threshold, n) ==
  IF n = 0 THEN <<>>
  ELSE where_gt_upto(a, threshold, n - 1) \o (IF a[n] > threshold THEN <<n - 1>> ELSE <<>>)
where_gt(a, threshold) == where_gt_upto(a, threshold, Len(a))

\* the leading rows of a, as many as there are indices
take_leading(a, idxs) == [k \in 1..Len(idxs) |-> a[k]]

\* a[idxs] for an index array
take(a, idxs) == [k \in 1..Len(idxs) |-> At(a, idxs[k])]

\* a filter that leaves the end indices of start2end in the original numbering
remap_end_keep(long, end_idxs) == long

\* end_long2short[long] if long in end_long2short else -1
remap_end(long, end_idxs) ==
  IF \E k \in 1..Len(end_idxs) : end_idxs[k] = long
  THEN (CHOOSE k \in 1..Len(end_idxs) : end_idxs[k] = long) - 1
  ELSE -1

filter_metadata(metadata, threshold) ==
  LET start_idxs == where_gt(metadata.filter_start, threshold)
      end_idxs == where_gt(metadata.filter_end, threshold)
      s2e == take(metadata.start2end, start_idxs)
  IN IF IsNone(metadata.sparse) THEN Raise("TypeError")
     ELSE Ok(
       [did |-> metadata.did, context |-> metadata.context, title |-> metadata.title,
        start |-> take(metadata.start, start_idxs),
        end |-> take(metadata.end, end_idxs),
        sparse |-> Some(take(The(metadata.sparse), start_idxs)),
        sparse_bi |-> IF ~IsNone(metadata.sparse_bi)
                      THEN Some(take(The(metadata.sparse_bi), start_idxs)) ELSE None,
        sparse_tri |-> IF ~IsNone(metadata.sparse_tri)
                       THEN Some(take(The(metadata.sparse_tri), start_idxs)) ELSE None,
        f2o_start |-> start_idxs,
        f2o_end |-> end_idxs,
        span_logits |-> take(metadata.span_logits, start_idxs),
        start2end |-> [i \in 1..Len(s2e) |->
                         [j \in 1..Len(s2e[i]) |-> remap_end(s2e[i][j], end_idxs)]],
        word2char_start |-> metadata.word2char_start,
        word2char_end |-> metadata.word2char_end,
        filter_start |-> metadata.filter_start, filter_end |-> metadata.filter_end,
        input_ids |-> metadata.input_ids,
        len_per_para |-> metadata.len_per_para])

\* pool_func: extraction, then filtering
pool_func(features, results, max_answer_length, do_lower_case, filter_threshold) ==
  CHOOSE out \in
    {IF ~metadata_.ok THEN metadata_ ELSE filter_metadata(metadata_.val, filter_threshold) :
       metadata_ \in {get_metadata(features, results, max_answer_length, do_lower_case)}} :
    TRUE

\* --------------------------------------------------------- quantization

\* np.round of a / unit (half to even), unit > 0
np_round(a, unit) ==
  LET q == a \div unit
      r == a % unit
  IN IF 2 * r < unit THEN q
     ELSE IF 2 * r > unit THEN q + 1
     ELSE IF q % 2 = 0 THEN q ELSE q + 1

clip(x, lo, hi) == IF x < lo THEN lo ELSE IF x > hi THEN hi ELSE x

\* an encoding that does not subtract the offset
float_to_int8_no_offset(num, offset, factor, keep_zeros, unit) ==
  LET out == clip(num * factor, -128 * unit, 127 * unit)
      masked == IF keep_zeros /\ num = 0 THEN 0 ELSE out
  IN np_round(masked, unit)

\* float_to_int8 of one number; num and offset are counted in 1/unit
float_to_int8(num, offset, factor, keep_zeros, unit) ==
  LET out == clip((num - offset) * factor, -128 * unit, 127 * unit)
      masked == IF keep_zeros /\ num = 0 THEN 0 ELSE out
  IN np_round(masked, unit)

\* int8_to_float of one code; offset is counted in 1/unit and the result in
\* 1/(unit * factor), in which num / factor + offset is a whole number
int8_to_float(num, offset, factor, keep_zeros, unit) ==
  LET out == num * unit + offset * factor
  IN IF keep_zeros /\ num = 0 THEN 0 ELSE out

quantize_vec(v, offset, factor) ==
  [k \in 1..Len(v) |-> float_to_int8(v[k], offset, factor, FALSE, 1)]
quantize_mat(m, offset, factor) ==
  [k \in 1..Len(m) |-> quantize_vec(m[k], offset, factor)]

compress_metadata(metadata, dense_offset, dense_scale, sparse_offset, sparse_scale) ==
  LET qs(o) == IF IsNone(o) THEN None
               ELSE Some(quantize_mat(The(o), sparse_offset, sparse_scale))
  IN [metadata EXCEPT !.start = quantize_vec(@, dense_offset, dense_scale),
                      !.end = quantize_vec(@, dense_offset, dense_scale),
                      !.sparse = qs(@), !.sparse_bi = qs(@), !.sparse_tri = qs(@)]

\* ------------------------------------------------------------ bounds

\* longest Result sequence handed to write_hdf5
MaxResults == 3
\* capacity of inqueue and of outqueue (Queue(maxsize=500), scaled down)
QueueCap == 2
\* largest max_answer_length tried on get_metadata
MaxAnswerLen == 2

VARIABLES
  \* write_hdf5: the arguments
  all_results,     \* the (Feature, Result, Example) triples, in corpus order
  dense_offset,    \* None or the quantization offset
  \* write_hdf5: the caller
  c_pc, count, features,
  \* write_hdf5: the queues and the two worker threads
  inqueue, outqueue, a_pc, a_out, w_pc,
  h5file,          \* the index file: document id -> group
  pushed,          \* history: number of groups the caller has put on inqueue
  written,         \* history: the groups persisted, in order
  puts,            \* history: per queue, the kind of every item put, in order
  \* get_metadata / filter_metadata applied to one document
  m_pc, m_in, m_md, m_out,
  \* write_predictions
  p_pc, p_args, p_n, predictions, scores,
  p_best,           \* history: per question, the best admissible candidate so far
  p_seen,           \* history: the questions a Result has been processed for
  prediction_file, score_file,
  \* write_predictions_nq
  nq_pc, nq_args, nq_i,
  nq_result,        \* the local `result`: None while unbound
  all_predictions, all_nbest_json,
  nq_prelim,        \* history: the sorted Prelim Predictions of the last question
  nq_nbest,         \* history: the lists get_nbest_json returned for the last question
  nq_files,
  f1s, ems,        \* write_predictions_nq: the metric accumulators
  \* one call of a function that keeps no state
  fn_pc, fn_in, fn_out

hdf5Vars == <<all_results, dense_offset, c_pc, count, features, inqueue, outqueue,
              a_pc, a_out, w_pc, h5file, pushed, written, puts>>
metaVars == <<m_pc, m_in, m_md, m_out>>
predVars == <<p_pc, p_args, p_n, predictions, scores, p_best, p_seen, prediction_file,
              score_file>>
nqVars == <<nq_pc, nq_args, nq_i, nq_result, all_predictions, all_nbest_json,
            nq_prelim, nq_nbest, nq_files, f1s, ems>>
fnVars == <<fn_pc, fn_in, fn_out>>
vars == <<hdf5Vars, metaVars, predVars, nqVars, fnVars>>

\* ------------------------------------------------------- document windows

Digits == <<"0", "1", "2", "3", "4", "5", "6", "7", "8", "9">>
RECURSIVE py_str(_)
py_str(n) == IF n < 10 THEN <<Digits[n + 1]>>
             ELSE py_str(n \div 10) \o <<Digits[(n % 10) + 1]>>

\* Two paragraphs and their windows.  doc_idx and unique_id are set by position.
ExampleP0 == [doc_words |-> << <<"a", "b">>, <<"b">> >>, par_idx |-> 0, title |-> "t"]
ExampleP1 == [doc_words |-> << <<"A", ".">> >>, par_idx |-> 1, title |-> "t"]
ExampleP2 == [doc_words |-> << <<"b">>, <<"b">> >>, par_idx |-> 0, title |-> "t"]

Window(k) ==
  CASE k = 1 -> [tokens |-> <<CLS, <<"a">>, <<"#", "#", "b">>, SEP>>,
                 token_to_word_map |-> (1 :> 0 @@ 2 :> 0),
                 doc_span_index |-> 0, example |-> ExampleP0]
    [] k = 2 -> [tokens |-> <<CLS, <<"b">>, SEP>>,
                 token_to_word_map |-> (1 :> 1),
                 doc_span_index |-> 1, example |-> ExampleP0]
    [] k = 3 -> [tokens |-> <<CLS, <<"a">>, <<".">>, SEP>>,
                 token_to_word_map |-> (1 :> 0 @@ 2 :> 0),
                 doc_span_index |-> 0, example |-> ExampleP1]
    [] k = 4 -> [tokens |-> <<CLS, <<".">>, SEP>>,
                 token_to_word_map |-> (1 :> 0),
                 doc_span_index |-> 1, example |-> ExampleP1]
    [] k = 5 -> [tokens |-> <<CLS, SEP>>,
                 token_to_word_map |-> <<>>,
                 doc_span_index |-> 0, example |-> ExampleP1]
    [] k = 6 -> [tokens |-> <<CLS, <<"b">>, <<"b">>, SEP>>,
                 token_to_word_map |-> (1 :> 0 @@ 2 :> 1),
                 doc_span_index |-> 0, example |-> ExampleP2]
Windows == 1..4

\* the ways a model run can carry sparse data: start_sp absent, or a map
\* keyed by n-gram order
SpChoices == {None, Some({1}), Some({1, 2}), Some({1, 2, 3}), Some({2})}

\* filter logits of a window of L tokens: free on the interior tokens
LogitVecs(L) == {v \in [1..L -> {0, 1}] : v[1] = 1 /\ v[L] = 1}

\* the Feature and the Result of window w at position k of a corpus
MkFeature(w, k, doc_idx) ==
  [unique_id |-> k, tokens |-> Window(w).tokens,
   token_to_word_map |-> Window(w).token_to_word_map,
   doc_span_index |-> Window(w).doc_span_index,
   example |-> [doc_words |-> Window(w).example.doc_words,
                par_idx |-> Window(w).example.par_idx,
                title |-> Window(w).example.title, doc_idx |-> doc_idx]]
MkResult(k, sp, fs, fe) ==
  [unique_id |-> k, start_sp |-> sp, filter_start_logits |-> fs, filter_end_logits |-> fe]

\* ------------------------------------- get_metadata, then filter_metadata

MetaWindows == {1, 2, 5}
MetaPairs == {[w |-> w, fs |-> fs, fe |-> fe] :
                w \in MetaWindows, fs \in [1..4 -> {0, 1}], fe \in [1..4 -> {0, 1}]}
MetaPairOk(x) ==
  LET L == Len(Window(x.w).tokens)
  IN /\ x.fs[1] = 1 /\ x.fe[1] = 1
     /\ \A i \in L..4 : x.fs[i] = 1 /\ x.fe[i] = 1
MetaDocs == UNION {[1..n -> {x \in MetaPairs : MetaPairOk(x)}] : n \in 1..2}

MetaInit ==
  /\ m_pc = "start"
  /\ \E doc \in MetaDocs, sp \in SpChoices, mal \in 1..MaxAnswerLen, th \in {-1, 0} :
       m_in = [features |-> [k \in 1..Len(doc) |-> MkFeature(doc[k].w, k, 1)],
               results |-> [k \in 1..Len(doc) |-> MkResult(k, sp, doc[k].fs, doc[k].fe)],
               max_answer_length |-> mal, threshold |-> th]
  /\ m_md = Raise("none")
  /\ m_out = Raise("none")

MetaExtract ==
  /\ m_pc = "start"
  /\ m_md' = get_metadata(m_in.features, m_in.results, m_in.max_answer_length, TRUE)
  /\ m_pc' = IF m_md'.ok THEN "extracted" ELSE "raised"
  /\ UNCHANGED <<m_in, m_out>>

MetaFilter ==
  /\ m_pc = "extracted"
  /\ m_out' = filter_metadata(m_md.val, m_in.threshold)
  /\ m_pc' = IF m_out'.ok THEN "filtered" ELSE "raised"
  /\ UNCHANGED <<m_in, m_md>>


\* ------------------------------------------------------------ write_hdf5

\* arguments of write_hdf5 held fixed
max_answer_length == 2
filter_threshold == 0
dense_scale == 1
sparse_offset == 0
sparse_scale == 1

\* filter logits of the windows of the corpus
WindowFs(w) == CASE w = 1 -> <<1, 1, 1, 1>> [] w = 2 -> <<1, 1, 1, 1>>
                 [] w = 3 -> <<1, 0, 1, 1>> [] w = 4 -> <<1, 1, 1, 1>>
WindowFe(w) == CASE w = 1 -> <<1, 0, 1, 1>> [] w = 2 -> <<1, 1, 1, 1>>
                 [] w = 3 -> <<1, 1, 1, 1>> [] w = 4 -> <<1, 0, 1, 1>>

\* a corpus: a non-empty sequence of windows, every Result with the same
\* kind of sparse data; a document starts at each window of paragraph 0 with
\* doc_span_index 0, and documents are numbered from 1
DocStart(w) == Window(w).example.par_idx = 0 /\ Window(w).doc_span_index = 0
DocIdx(ws, k) == Max2(1, Cardinality({m \in 1..k : DocStart(ws[m])}))
Corpora ==
  {[k \in 1..Len(ws) |->
      [feature |-> MkFeature(ws[k], k, DocIdx(ws, k)),
       result |-> MkResult(k, sp, WindowFs(ws[k]), WindowFe(ws[k]))]] :
     ws \in UNION {[1..n -> Windows] : n \in 1..MaxResults}, sp \in SpChoices}

\* a queue that is not first-in first-out: put places the item at the front
queue_put_front(q, item) == <<item>> \o q

\* a queue without a maximal size: put never waits
queue_unbounded(q) == FALSE

\* multiprocessing.Queue: put appends, get takes the oldest item
queue_put(q, item) == Append(q, item)
queue_front(q) == Head(q)
queue_rest(q) == Tail(q)
queue_full(q) == Len(q) >= QueueCap

\* the tuple (id2example, features, results) for the windows at the given
\* positions of all_results; ord is history: the rank of the put
Group(idxs, ord) == [idxs |-> idxs, ord |-> ord]
GroupFeatures(g) == [k \in 1..Len(g.idxs) |-> all_results[g.idxs[k]].feature]
GroupResults(g) == [k \in 1..Len(g.idxs) |-> all_results[g.idxs[k]].result]

\* an index file a previous run left behind holds a group for document 1
StaleGroup == [attrs |-> [a \in {"context"} |-> <<"o", "l", "d">>],
               datasets |-> [d \in {"start", "stale"} |-> <<0>>]]
InitialFiles == {<<>>, py_str(1) :> StaleGroup}

Hdf5Init ==
  /\ all_results \in Corpora
  /\ dense_offset \in {None, Some(1000)}
  /\ c_pc = "loop" /\ count = 0 /\ features = <<>>
  /\ inqueue = <<>> /\ outqueue = <<>>
  /\ a_pc = "get" /\ a_out = None
  /\ w_pc = "get"
  /\ h5file \in InitialFiles
  /\ pushed = 0
  /\ written = <<>>
  /\ puts = [inqueue |-> <<>>, outqueue |-> <<>>]

\* a test that starts a group at every first window, of any paragraph
condition_any_par(features_, example, feature) ==
  Len(features_) > 0 /\ feature.doc_span_index = 0

\* the test that starts a new group (line 472)
condition(features_, example, feature) ==
  Len(features_) > 0 /\ example.par_idx = 0 /\ feature.doc_span_index = 0

\* one iteration of the loop over all_results (lines 469-485); the put of a
\* completed group waits while inqueue is full
CallerIter ==
  /\ c_pc = "loop" /\ count < Len(all_results)
  /\ LET example == all_results[count + 1].feature.example
         feature == all_results[count + 1].feature
     IN IF condition(features, example, feature)
        THEN /\ ~queue_full(inqueue)
             /\ inqueue' = queue_put(inqueue, Some(Group(features, pushed + 1)))
             /\ pushed' = pushed + 1
             /\ features' = <<count + 1>>
             /\ puts' = [puts EXCEPT !.inqueue = Append(@, "item")]
        ELSE /\ features' = Append(features, count + 1)
             /\ UNCHANGED <<inqueue, pushed, puts>>
  /\ count' = count + 1
  /\ UNCHANGED <<all_results, dense_offset, c_pc, outqueue, a_pc, a_out, w_pc, h5file, written>>

\* the put of the last group (lines 486-487)
CallerLastPut ==
  /\ c_pc = "loop" /\ count = Len(all_results)
  /\ ~queue_full(inqueue)
  /\ inqueue' = queue_put(inqueue, Some(Group(features, pushed + 1)))
  /\ pushed' = pushed + 1
  /\ c_pc' = "put_none"
  /\ puts' = [puts EXCEPT !.inqueue = Append(@, "item")]
  /\ UNCHANGED <<all_results, dense_offset, count, features, outqueue, a_pc, a_out, w_pc,
                 h5file, written>>

\* inqueue.put(None) (line 488)
CallerPutNone ==
  /\ c_pc = "put_none"
  /\ ~queue_full(inqueue)
  /\ inqueue' = queue_put(inqueue, None)
  /\ c_pc' = "join_p"
  /\ puts' = [puts EXCEPT !.inqueue = Append(@, "None")]
  /\ UNCHANGED <<all_results, dense_offset, count, features, outqueue, a_pc, a_out, w_pc,
                 h5file, pushed, written>>

\* p.join() returns once the transform thread has ended, normally or not
CallerJoinP ==
  /\ c_pc = "join_p" /\ a_pc \in {"done", "dead"}
  /\ c_pc' = "join_write"
  /\ UNCHANGED puts
  /\ UNCHANGED <<all_results, dense_offset, count, features, inqueue, outqueue, a_pc, a_out,
                 w_pc, h5file, pushed, written>>

\* write_p.join()
CallerJoinWrite ==
  /\ c_pc = "join_write" /\ w_pc = "done"
  /\ c_pc' = "returned"
  /\ UNCHANGED puts
  /\ UNCHANGED <<all_results, dense_offset, count, features, inqueue, outqueue, a_pc, a_out,
                 w_pc, h5file, pushed, written>>

\* add: inqueue_.get() and, for a group, pool_func; an exception out of
\* pool_func ends the thread
AddGet ==
  /\ a_pc = "get" /\ inqueue # <<>>
  /\ inqueue' = queue_rest(inqueue)
  /\ LET item == queue_front(inqueue)
     IN IF IsNone(item)
        THEN a_pc' = "put_none" /\ a_out' = None
        ELSE \E out \in {pool_func(GroupFeatures(The(item)), GroupResults(The(item)),
                                     max_answer_length, TRUE, filter_threshold)} :
                IF out.ok
                THEN a_pc' = "put" /\ a_out' = Some([md |-> out.val, ord |-> The(item).ord])
                ELSE a_pc' = "dead" /\ a_out' = None
  /\ UNCHANGED puts
  /\ UNCHANGED <<all_results, dense_offset, c_pc, count, features, outqueue, w_pc, h5file,
                 pushed, written>>

\* add: outqueue_.put(out)
AddPut ==
  /\ a_pc = "put" /\ ~queue_full(outqueue)
  /\ outqueue' = queue_put(outqueue, a_out)
  /\ a_pc' = "get" /\ a_out' = None
  /\ puts' = [puts EXCEPT !.outqueue = Append(@, "item")]
  /\ UNCHANGED <<all_results, dense_offset, c_pc, count, features, inqueue, w_pc, h5file,
                 pushed, written>>

\* add: outqueue_.put(None) after the loop
AddPutNone ==
  /\ a_pc = "put_none" /\ ~queue_full(outqueue)
  /\ outqueue' = queue_put(outqueue, None)
  /\ a_pc' = "done"
  /\ puts' = [puts EXCEPT !.outqueue = Append(@, "None")]
  /\ UNCHANGED <<all_results, dense_offset, c_pc, count, features, inqueue, a_out, w_pc,
                 h5file, pushed, written>>

\* the group write creates for one record (lines 424-453)
h5_group(metadata0) ==
  LET quant == ~IsNone(dense_offset)
      metadata == IF quant
                  THEN compress_metadata(metadata0, The(dense_offset), dense_scale,
                                         sparse_offset, sparse_scale)
                  ELSE metadata0
      attr_names == {"context", "title"} \cup
                    (IF quant THEN {"offset", "scale", "sparse_offset", "sparse_scale"} ELSE {})
      has_sparse == ~IsNone(metadata.sparse)
      names == {"start", "end", "span_logits", "start2end", "word2char_start",
                "word2char_end", "f2o_start", "f2o_end"}
               \cup (IF has_sparse THEN {"sparse", "input_ids", "len_per_para"} ELSE {})
               \cup (IF has_sparse /\ ~IsNone(metadata.sparse_bi) THEN {"sparse_bi"} ELSE {})
               \cup (IF has_sparse /\ ~IsNone(metadata.sparse_tri) THEN {"sparse_tri"} ELSE {})
  IN [attrs |-> [a \in attr_names |->
                   CASE a = "context" -> metadata.context
                     [] a = "title" -> metadata.title
                     [] a = "offset" -> The(dense_offset)
                     [] a = "scale" -> dense_scale
                     [] a = "sparse_offset" -> sparse_offset
                     [] a = "sparse_scale" -> sparse_scale],
      datasets |-> [d \in names |->
                   CASE d = "start" -> metadata.start
                     [] d = "end" -> metadata.end
                     [] d = "sparse" -> The(metadata.sparse)
                     [] d = "sparse_bi" -> The(metadata.sparse_bi)
                     [] d = "sparse_tri" -> The(metadata.sparse_tri)
                     [] d = "input_ids" -> The(metadata.input_ids)
                     [] d = "len_per_para" -> metadata.len_per_para
                     [] d = "span_logits" -> metadata.span_logits
                     [] d = "start2end" -> metadata.start2end
                     [] d = "word2char_start" -> metadata.word2char_start
                     [] d = "word2char_end" -> metadata.word2char_end
                     [] d = "f2o_start" -> metadata.f2o_start
                     [] d = "f2o_end" -> metadata.f2o_end]]

\* a write that keeps what an existing group holds beside the new contents
h5_merge(f, did, group) ==
  [k \in (DOMAIN f) \cup {did} |->
     IF k # did THEN f[k]
     ELSE IF did \in DOMAIN f
          THEN [attrs |-> group.attrs @@ f[did].attrs,
                datasets |-> group.datasets @@ f[did].datasets]
          ELSE group]

\* del f[did] when present, then f.create_group(did) and its contents
h5_replace(f, did, group) ==
  [k \in (DOMAIN f) \cup {did} |-> IF k = did THEN group ELSE f[k]]

\* write: one round of the loop (lines 421-457)
WriteGet ==
  /\ w_pc = "get" /\ outqueue # <<>>
  /\ outqueue' = queue_rest(outqueue)
  /\ LET metadata == queue_front(outqueue)
     IN IF ~IsNone(metadata)
        THEN /\ h5file' = h5_replace(h5file, py_str(The(metadata).md.did),
                                      h5_group(The(metadata).md))
             /\ written' = Append(written, The(metadata).ord)
             /\ w_pc' = "get"
        ELSE /\ w_pc' = "done"
             /\ UNCHANGED <<h5file, written>>
  /\ UNCHANGED puts
  /\ UNCHANGED <<all_results, dense_offset, c_pc, count, features, inqueue, a_pc, a_out,
                 pushed>>

\* ----------------------------------------------------- write_predictions

\* filter threshold handed to write_predictions
threshold == 0

QasIds == {"q1", "q2"}
\* longest Result sequence handed to write_predictions
MaxPredResults == 2

\* the mapped token positions of a window
Mapped(w) == DOMAIN Window(w).token_to_word_map

\* token_is_max_context: a dict that may lack keys
MaxContextChoices(w) ==
  {[i \in S |-> TRUE] : S \in {Mapped(w), Mapped(w) \ {1}}} \cup {[i \in Mapped(w) |-> FALSE]}

\* a vector over the token positions 0..3 that is free on the mapped tokens
\* of the window and rest elsewhere
TokenVecs(w, vals, rest) ==
  {v \in [0..3 -> vals \cup {rest}] : \A i \in 0..3 : i \notin Mapped(w) => v[i] = rest}

\* all_logits: free on the spans of mapped tokens, 9 elsewhere
SpanMats(w) ==
  LET spans == {x \in Mapped(w) \X Mapped(w) : x[1] <= x[2]}
  IN {[x \in (0..3) \X (0..3) |-> IF x \in spans THEN f[x] ELSE 9] :
        f \in [spans -> {1, 2}]}

PredWindows == {1, 2}
PredInputsOf(w) ==
  {[feature |-> [tokens |-> Window(w).tokens,
                 token_to_word_map |-> Window(w).token_to_word_map,
                 token_is_max_context |-> mc],
    example |-> [doc_words |-> Window(w).example.doc_words, qas_id |-> q],
    result |-> [filter_start_logits |-> fs, filter_end_logits |-> fe, all_logits |-> al]] :
     q \in QasIds, mc \in MaxContextChoices(w),
     fs \in TokenVecs(w, {-1, 0}, 1), fe \in TokenVecs(w, {-1, 0}, 1), al \in SpanMats(w)}
PredInputs == UNION {PredInputsOf(w) : w \in PredWindows}

\* the (start_index, end_index) pairs in the order the two loops visit them
RECURSIVE pred_pairs(_, _, _)
pred_pairs(L, mal, start_index) ==
  IF start_index >= L THEN <<>>
  ELSE [k \in 1..Max2(Min2(L, start_index + mal - 1) - start_index, 0) |->
          <<start_index, start_index + k - 1>>]
       \o pred_pairs(L, mal, start_index + 1)

\* an inner loop body that lets a later candidate of equal score replace the
\* stored one
pred_visit_ties(acc, example, feature, result, start_index, end_index) ==
  IF start_index \notin DOMAIN feature.token_to_word_map THEN acc
  ELSE IF end_index \notin DOMAIN feature.token_to_word_map THEN acc
  ELSE IF ~DictGet(feature.token_is_max_context, start_index, FALSE) THEN acc
  ELSE IF result.filter_start_logits[start_index] < threshold
          \/ result.filter_end_logits[end_index] < threshold THEN acc
  ELSE LET score == result.all_logits[<<start_index, end_index>>]
       IN IF IsNone(acc) \/ score >= The(acc).score
          THEN LET t == get_final_text_(example, feature, start_index, end_index, TRUE)
               IN Some([phrase |-> Slice(t.full_text, t.start_pos, t.end_pos),
                        score |-> score])
          ELSE acc

\* the body of the inner loop for one pair (lines 527-557); acc is the
\* entry of the question in predictions and scores, or None
pred_visit(acc, example, feature, result, start_index, end_index) ==
  IF start_index \notin DOMAIN feature.token_to_word_map THEN acc
  ELSE IF end_index \notin DOMAIN feature.token_to_word_map THEN acc
  ELSE IF ~DictGet(feature.token_is_max_context, start_index, FALSE) THEN acc
  ELSE IF result.filter_start_logits[start_index] < threshold
          \/ result.filter_end_logits[end_index] < threshold THEN acc
  ELSE LET score == result.all_logits[<<start_index, end_index>>]
       IN IF IsNone(acc) \/ score > The(acc).score
          THEN LET t == get_final_text_(example, feature, start_index, end_index, TRUE)
               IN Some([phrase |-> Slice(t.full_text, t.start_pos, t.end_pos),
                        score |-> score])
          ELSE acc

RECURSIVE pred_scan(_, _, _, _, _)
pred_scan(acc, example, feature, result, pairs) ==
  IF pairs = <<>> THEN acc
  ELSE pred_scan(CHOOSE a \in {pred_visit(acc, example, feature, result,
                                          pairs[1][1], pairs[1][2])} : TRUE,
                 example, feature, result, Tail(pairs))

PredInit ==
  /\ p_pc = "loop"
  /\ p_args \in {[max_answer_length |-> mal] : mal \in 1..(MaxAnswerLen + 1)}
  /\ p_n = 0
  /\ predictions = <<>> /\ scores = <<>>
  /\ p_best = [q \in QasIds |-> None]
  /\ p_seen = {}
  /\ prediction_file = None /\ score_file = None

\* the spans of one (Feature, Result) a prediction may come from
AdmissibleSpans(x, mal) ==
  {sp \in (0..3) \X (0..3) :
     /\ sp[1] <= sp[2]
     /\ sp[2] < Min2(Len(x.feature.tokens), sp[1] + mal - 1)
     /\ sp[1] \in DOMAIN x.feature.token_to_word_map
     /\ sp[2] \in DOMAIN x.feature.token_to_word_map
     /\ sp[1] \in DOMAIN x.feature.token_is_max_context
     /\ x.feature.token_is_max_context[sp[1]]
     /\ ~(x.result.filter_start_logits[sp[1]] < threshold)
     /\ ~(x.result.filter_end_logits[sp[2]] < threshold)}

\* history: the best admissible candidate, the earliest in visiting order
\* among those of the highest score, after one more (Feature, Result)
BestAfter(old, x, mal) ==
  LET adm == AdmissibleSpans(x, mal)
      top == CHOOSE sp \in adm : \A o \in adm :
               \/ x.result.all_logits[o] < x.result.all_logits[sp]
               \/ /\ x.result.all_logits[o] = x.result.all_logits[sp]
                  /\ (sp[1] < o[1] \/ (sp[1] = o[1] /\ sp[2] <= o[2]))
      t == get_final_text_(x.example, x.feature, top[1], top[2], TRUE)
  IN IF adm = {} THEN old
     ELSE IF ~IsNone(old) /\ The(old).score >= x.result.all_logits[top] THEN old
     ELSE Some([score |-> x.result.all_logits[top],
                phrase |-> Slice(t.full_text, t.start_pos, t.end_pos)])

\* one round of the loop over all_results (lines 514-561)
PredResult ==
  /\ p_pc = "loop" /\ p_n < MaxPredResults
  /\ \E x \in PredInputs :
       LET id_ == x.example.qas_id
           old == IF id_ \in DOMAIN scores
                  THEN Some([phrase |-> predictions[id_], score |-> scores[id_]])
                  ELSE None
       IN \E new \in {pred_scan(old, x.example, x.feature, x.result,
                                 pred_pairs(Len(x.feature.tokens),
                                            p_args.max_answer_length, 0))} :
            /\ IF IsNone(new)
               THEN UNCHANGED <<predictions, scores>>
               ELSE /\ predictions' = [k \in DOMAIN predictions \cup {id_} |->
                                         IF k = id_ THEN The(new).phrase ELSE predictions[k]]
                    /\ scores' = [k \in DOMAIN scores \cup {id_} |->
                                    IF k = id_ THEN The(new).score ELSE scores[k]]
            /\ p_best' = [p_best EXCEPT ![id_] = BestAfter(@, x, p_args.max_answer_length)]
            /\ p_seen' = p_seen \cup {id_}
  /\ p_n' = p_n + 1
  /\ UNCHANGED <<p_pc, p_args, prediction_file, score_file>>

\* a dump that writes the stored scores as they are
PredWriteRaw ==
  /\ p_pc = "loop"
  /\ prediction_file' = Some(predictions)
  /\ score_file' = Some(scores)
  /\ p_pc' = "written"
  /\ UNCHANGED <<p_args, p_n, predictions, scores, p_best, p_seen>>

\* the two json.dump calls after the loop (lines 565-569)
PredWrite ==
  /\ p_pc = "loop"
  /\ prediction_file' = Some(predictions)
  /\ score_file' = Some([k \in DOMAIN scores |-> -scores[k]])
  /\ p_pc' = "written"
  /\ UNCHANGED <<p_args, p_n, predictions, scores, p_best, p_seen>>

\* -------------------------------------------------- write_predictions_nq

\* largest n_best_size handed to write_predictions_nq
MaxNBest == 2

\* sorted(items, key=..., reverse=...) on a list of <<key, item>> pairs:
\* stable, also when reversed
\* an insertion that puts an item ahead of the items with an equal key
RECURSIVE sorted_insert_unstable(_, _, _)
sorted_insert_unstable(acc_, x_, reverse) ==
  CHOOSE out \in
    {IF acc = <<>> THEN <<x>>
     ELSE IF (IF reverse THEN acc[Len(acc)][1] > x[1] ELSE acc[Len(acc)][1] < x[1])
          THEN Append(acc, x)
          ELSE Append(sorted_insert_unstable(SubSeq(acc, 1, Len(acc) - 1), x, reverse),
                      acc[Len(acc)]) :
       acc \in {acc_}, x \in {x_}} : TRUE

RECURSIVE sorted_insert(_, _, _)
sorted_insert(acc_, x_, reverse) ==
  CHOOSE out \in
    {IF acc = <<>> THEN <<x>>
     ELSE IF (IF reverse THEN acc[Len(acc)][1] >= x[1] ELSE acc[Len(acc)][1] <= x[1])
          THEN Append(acc, x)
          ELSE Append(sorted_insert(SubSeq(acc, 1, Len(acc) - 1), x, reverse),
                      acc[Len(acc)]) :
       acc \in {acc_}, x \in {x_}} : TRUE

RECURSIVE sorted_acc(_, _, _)
sorted_acc(acc, s_, reverse) ==
  CHOOSE out \in
    {IF s = <<>> THEN acc
     ELSE sorted_acc(sorted_insert(acc, Head(s), reverse), Tail(s), reverse) :
       s \in {s_}} : TRUE

sorted(s, reverse) ==
  CHOOSE out \in {[k \in 1..Len(a) |-> a[k][2]] : a \in {sorted_acc(<<>>, s, reverse)}} : TRUE

\* math.exp(x) is kept as the term [exp |-> x]; a sum of such terms as their list
_compute_softmax(scores_) ==
  IF scores_ = <<>> THEN <<>>
  ELSE LET max_score == MaxSeq(scores_)
           exp_scores == [k \in 1..Len(scores_) |-> [exp |-> scores_[k] - max_score]]
       IN [k \in 1..Len(scores_) |-> [num |-> exp_scores[k], total_sum |-> exp_scores]]

unique_id_to_result(all_results_, unique_id) ==
  CHOOSE r \in {all_results_[k] : k \in 1..Len(all_results_)} : r.unique_id = unique_id

\* lines 891-897: every ((i, i + j), s + e), then sorted by descending score
nq_scores(feature, result) ==
  LET L == Len(feature.tokens)
      start_logits == Slice(result.start_logits, 0, L)
      end_logits == Slice(result.end_logits, 0, L)
      row(i) == [j \in 1..Len(Slice(end_logits, i, i + 10)) |->
                   <<At(start_logits, i) + At(end_logits, i + j - 1), <<i, i + j - 1>> >>]
  IN sorted(Concat([i \in 1..Len(start_logits) |-> row(i - 1)]), TRUE)

\* a loop that ranks a candidate by its score start_logit + end_logit
RECURSIVE nq_collect_scored(_, _, _, _, _, _, _)
nq_collect_scored(prelim_predictions, scores_, k, feature, feature_index, result, args) ==
  IF k > Len(scores_) THEN prelim_predictions
  ELSE LET start_index == scores_[k][1]
           end_index == scores_[k][2]
       IN IF \/ start_index >= Len(feature.tokens)
             \/ end_index >= Len(feature.tokens)
             \/ start_index \notin DOMAIN feature.token_to_word_map
             \/ end_index \notin DOMAIN feature.token_to_word_map
             \/ ~DictGet(feature.token_is_max_context, start_index, FALSE)
             \/ end_index < start_index
          THEN nq_collect_scored(prelim_predictions, scores_, k + 1, feature, feature_index,
                                 result, args)
          ELSE LET appended ==
                     Append(prelim_predictions,
                            [paragraph_index |-> feature.paragraph_index,
                             feature_index |-> feature_index,
                             start_index |-> start_index,
                             end_index |-> end_index,
                             logit |-> At(result.start_logits, start_index)
                                         + At(result.end_logits, end_index),
                             no_answer_logit |-> result.switch3])
               IN IF IsNone(args.n_paragraphs) /\ Len(appended) >= args.n_best_size
                  THEN appended
                  ELSE nq_collect_scored(appended, scores_, k + 1, feature, feature_index,
                                         result, args)

\* lines 900-925: the loop over the sorted scores of one Feature, from the
\* k-th score on
RECURSIVE nq_collect(_, _, _, _, _, _, _), nq_collect_from(_, _, _, _, _, _, _)
nq_collect(prelim_predictions_, scores_, k, feature, feature_index, result, args) ==
  CHOOSE out \in {nq_collect_from(prelim_predictions, scores_, k, feature, feature_index,
                                  result, args) :
                    prelim_predictions \in {prelim_predictions_}} : TRUE

nq_collect_from(prelim_predictions, scores_, k, feature, feature_index, result, args) ==
  IF k > Len(scores_) THEN prelim_predictions
  ELSE LET start_index == scores_[k][1]
           end_index == scores_[k][2]
       IN IF \/ start_index >= Len(feature.tokens)
             \/ end_index >= Len(feature.tokens)
             \/ start_index \notin DOMAIN feature.token_to_word_map
             \/ end_index \notin DOMAIN feature.token_to_word_map
             \/ ~DictGet(feature.token_is_max_context, start_index, FALSE)
             \/ end_index < start_index
          THEN nq_collect(prelim_predictions, scores_, k + 1, feature, feature_index,
                          result, args)
          ELSE LET appended ==
                     Append(prelim_predictions,
                            [paragraph_index |-> feature.paragraph_index,
                             feature_index |-> feature_index,
                             start_index |-> start_index,
                             end_index |-> end_index,
                             logit |-> -result.switch3,
                             no_answer_logit |-> result.switch3])
               IN IF IsNone(args.n_paragraphs) /\ Len(appended) >= args.n_best_size
                  THEN appended
                  ELSE nq_collect(appended, scores_, k + 1, feature, feature_index,
                                  result, args)

\* a choice that takes the first Feature, whatever its no-answer logit
nq_results_first(features_, args) ==
  LET enumerated == [k \in 1..Len(features_) |-> <<k - 1, features_[k]>>]
  IN IF IsNone(args.n_paragraphs) THEN Slice(enumerated, 0, 1) ELSE enumerated

\* lines 883-887: the enumerate(features) entries the Feature loop visits
nq_results(features_, args) ==
  LET enumerated == [k \in 1..Len(features_) |-> <<k - 1, features_[k]>>]
  IN IF IsNone(args.n_paragraphs)
     THEN Slice(sorted([k \in 1..Len(features_) |->
                          <<unique_id_to_result(args.all_results,
                                                features_[k].unique_id).switch3,
                            enumerated[k]>>], FALSE), 0, 1)
     ELSE enumerated

\* lines 888-925: the Feature loop; st carries prelim_predictions and the
\* local `result`
RECURSIVE nq_feature_loop(_, _, _, _)
nq_feature_loop(st, results, k, args) ==
  IF k > Len(results) THEN st
  ELSE \* result = unique_id_to_result[feature.unique_id]
       LET feature_index == results[k][1]
           feature == results[k][2]
           result == unique_id_to_result(args.all_results, feature.unique_id)
       IN nq_feature_loop(
            CHOOSE n \in {[prelim_predictions |->
                             nq_collect(st.prelim_predictions, sc, 1, feature,
                                        feature_index, result, args),
                           result |-> Some(result)] : sc \in {nq_scores(feature, result)}} : TRUE,
            results, k + 1, args)

TextYes == <<"y", "e", "s">>
TextNo == <<"n", "o">>
TextEmpty == <<"e", "m", "p", "t", "y">>

\* lines 948-965: the text of one Prelim Prediction
nq_final_text(pred, features_, do_lower_case) ==
  IF pred.start_index = pred.end_index /\ pred.end_index = -1 THEN TextYes
  ELSE IF pred.start_index = pred.end_index /\ pred.end_index = -2 THEN TextNo
  ELSE LET feature == At(features_, pred.feature_index)
           tok_tokens == Slice(feature.tokens, pred.start_index, pred.end_index + 1)
           orig_doc_start == feature.token_to_word_map[pred.start_index]
           orig_doc_end == feature.token_to_word_map[pred.end_index]
           orig_tokens == Slice(feature.doc_tokens, orig_doc_start, orig_doc_end + 1)
       IN nq_get_final_text(detokenize(tok_tokens), str_join(<<" ">>, orig_tokens),
                            do_lower_case)

\* lines 936-975: the loop of get_nbest_json from the k-th Prelim Prediction
\* on; seen_predictions is created empty and nothing is ever stored in it
RECURSIVE nbest_loop(_, _, _, _, _, _, _)
nbest_loop(nbest_, seen_predictions, prelim_predictions, k, features_, no_answer_logit, args) ==
  CHOOSE out \in
    {IF k > Len(prelim_predictions) \/ Len(nbest) >= args.n_best_size THEN nbest
     ELSE CHOOSE next \in
            {IF final_text \in seen_predictions
             THEN nbest_loop(nbest, seen_predictions, prelim_predictions, k + 1, features_,
                             no_answer_logit, args)
             ELSE nbest_loop(Append(nbest, [text |-> final_text,
                                            logit |-> prelim_predictions[k].logit,
                                            no_answer_logit |-> no_answer_logit]),
                             seen_predictions, prelim_predictions, k + 1, features_,
                             no_answer_logit, args) :
               final_text \in {nq_final_text(prelim_predictions[k], features_,
                                             args.do_lower_case)}} : TRUE :
       nbest \in {nbest_}} : TRUE

\* a fallback entry with the logit of the entry of a question without Features
nbest_output_low(looped, no_answer_logit) ==
  LET nbest == IF looped = <<>>
               THEN <<[text |-> TextEmpty, logit |-> -1000,
                       no_answer_logit |-> no_answer_logit]>>
               ELSE looped
      probs == _compute_softmax([k \in 1..Len(nbest) |-> nbest[k].logit])
  IN [k \in 1..Len(nbest) |->
        [text |-> nbest[k].text, probability |-> probs[k], logit |-> nbest[k].logit,
         no_answer_logit |-> nbest[k].no_answer_logit]]

\* lines 977-1000: the fallback entry and the n-best list as it is returned
nbest_output(looped, no_answer_logit) ==
  LET nbest == IF looped = <<>>
               THEN <<[text |-> TextEmpty, logit |-> 0, no_answer_logit |-> no_answer_logit]>>
               ELSE looped
      probs == _compute_softmax([k \in 1..Len(nbest) |-> nbest[k].logit])
  IN [k \in 1..Len(nbest) |->
        [text |-> nbest[k].text, probability |-> probs[k], logit |-> nbest[k].logit,
         no_answer_logit |-> nbest[k].no_answer_logit]]

get_nbest_json(prelim_predictions_, features_, no_answer_logit, args) ==
  CHOOSE out \in
    {nbest_output(looped, no_answer_logit) :
       looped \in {nbest_loop(<<>>, {}, prelim_predictions, 1, features_,
                              no_answer_logit, args) :
                     prelim_predictions \in {prelim_predictions_}}} : TRUE

\* setting d[key] = value in a dict
DictSet(d, key, value) == [k \in DOMAIN d \cup {key} |-> IF k = key THEN value ELSE d[k]]

\* the list comprehension of line 1009
PrelimBelow(prelim_predictions, n) ==
  SelectSeq(prelim_predictions, LAMBDA pred : pred.paragraph_index < n)

\* the windows the questions' Features are cut from
NqWindows == {1, 6}
NqLogits == {[start |-> <<0, 1, 0, 0>>, end |-> <<0, 1, 0, 0>>],
             [start |-> <<0, 1, 2, 0>>, end |-> <<0, 2, 1, 0>>]}

\* a Feature and its Result, before the unique_id is given
NqPairs ==
  {[w |-> w, max_context |-> TRUE, logits |-> lg, switch3 |-> sw, paragraph_index |-> par] :
     w \in NqWindows, lg \in NqLogits, sw \in {1, 2}, par \in {0, 1}}
  \cup {[w |-> 5, max_context |-> TRUE, switch3 |-> 1, paragraph_index |-> 0,
          logits |-> [start |-> <<0, 1, 0, 0>>, end |-> <<0, 1, 0, 0>>]],
         [w |-> 6, max_context |-> FALSE, switch3 |-> 2, paragraph_index |-> 0,
          logits |-> [start |-> <<0, 1, 0, 0>>, end |-> <<0, 1, 0, 0>>]]}

NqFeature(x, unique_id) ==
  [unique_id |-> unique_id,
   tokens |-> Window(x.w).tokens,
   token_to_word_map |-> Window(x.w).token_to_word_map,
   token_is_max_context |-> IF x.max_context
                            THEN [i \in Mapped(x.w) |-> TRUE] ELSE <<>>,
   doc_tokens |-> Window(x.w).example.doc_words,
   paragraph_index |-> x.paragraph_index]

NqResult(x, unique_id) ==
  [unique_id |-> unique_id, start_logits |-> x.logits.start, end_logits |-> x.logits.end,
   switch3 |-> x.switch3]

\* the Features of question e, and the Results of all questions in order
NqFeatures(per_example, e) ==
  [k \in 1..Len(per_example[e]) |-> NqFeature(per_example[e][k], 10 * e + k)]
NqResults(per_example) ==
  Concat([e \in 1..Len(per_example) |->
            [k \in 1..Len(per_example[e]) |-> NqResult(per_example[e][k], 10 * e + k)]])

NqExample(e) ==
  [qas_id |-> IF e = 1 THEN "q1" ELSE "q2",
   all_answers |-> IF e = 1 THEN << <<"b">> >> ELSE <<>>]

NqCorpora ==
  LET first == UNION {[1..n -> NqPairs] : n \in 0..2}
      second == UNION {[1..n -> NqPairs] : n \in 0..1}
  IN {<<f>> : f \in first} \cup {<<f, g>> : f \in first, g \in second}

NqInit ==
  /\ nq_pc = "loop"
  /\ \E per_example \in NqCorpora, n_best_size \in 1..MaxNBest,
        n_paragraphs \in {None, Some(<<1, 2>>)} :
       /\ nq_args = [all_examples |-> [e \in 1..Len(per_example) |-> NqExample(e)],
                     example_index_to_features |-> [e \in 1..Len(per_example) |->
                                         NqFeatures(per_example, e)],
                     all_results |-> NqResults(per_example),
                     n_best_size |-> n_best_size,
                     do_lower_case |-> TRUE,
                     n_paragraphs |-> n_paragraphs]
       \* lines 853-855: the loop over all_results leaves `result` bound to
       \* the last Result, if there is one
       /\ nq_result = IF NqResults(per_example) = <<>> THEN None
                      ELSE Some(NqResults(per_example)[Len(NqResults(per_example))])
  /\ nq_i = 0
  /\ all_predictions = <<>> /\ all_nbest_json = <<>>
  /\ nq_prelim = <<>> /\ nq_nbest = <<>>
  /\ nq_files = None
  /\ f1s = <<>> /\ ems = <<>>

\* lines 869-878: a question with no Features, without a cutoff list
NqNoFeatures ==
  /\ nq_pc = "loop" /\ nq_i < Len(nq_args.all_examples)
  /\ Len(At(nq_args.example_index_to_features, nq_i)) = 0 /\ IsNone(nq_args.n_paragraphs)
  /\ LET example == At(nq_args.all_examples, nq_i)
     IN /\ all_predictions' = DictSet(all_predictions, example.qas_id,
                                      <<TextEmpty, example.all_answers>>)
        /\ all_nbest_json' = DictSet(all_nbest_json, example.qas_id,
                                     <<[text |-> TextEmpty, logit |-> -1000,
                                        no_answer_logit |-> 1000]>>)
  /\ nq_i' = nq_i + 1
  /\ nq_prelim' = <<>> /\ nq_nbest' = <<>>
  /\ UNCHANGED <<nq_pc, nq_args, nq_result, nq_files, f1s, ems>>

\* the state after the Feature loop and the sort of lines 928-931
NqCollected ==
  LET features_ == At(nq_args.example_index_to_features, nq_i)
      st == nq_feature_loop([prelim_predictions |-> <<>>, result |-> nq_result],
                            nq_results(features_, nq_args), 1, nq_args)
  IN [prelim_predictions |->
        sorted([k \in 1..Len(st.prelim_predictions) |->
                  <<st.prelim_predictions[k].logit, st.prelim_predictions[k]>>], TRUE),
      result |-> st.result]

\* lines 880-932 when line 932 reads a `result` that was never bound
NqUnbound ==
  /\ nq_pc = "loop" /\ nq_i < Len(nq_args.all_examples)
  /\ ~(Len(At(nq_args.example_index_to_features, nq_i)) = 0 /\ IsNone(nq_args.n_paragraphs))
  /\ IsNone(NqCollected.result)
  /\ nq_pc' = "UnboundLocalError"
  /\ UNCHANGED <<nq_args, nq_i, nq_result, all_predictions, all_nbest_json,
                 nq_prelim, nq_nbest, nq_files, f1s, ems>>

\* lines 880-1004: a question without a cutoff list
NqQuestion ==
  /\ nq_pc = "loop" /\ nq_i < Len(nq_args.all_examples)
  /\ Len(At(nq_args.example_index_to_features, nq_i)) # 0 /\ IsNone(nq_args.n_paragraphs)
  /\ \E c \in {NqCollected} :
       /\ ~IsNone(c.result)
       /\ \E nbest_json \in {get_nbest_json(c.prelim_predictions,
                                             At(nq_args.example_index_to_features, nq_i),
                                             The(c.result).switch3, nq_args)} :
            LET example == At(nq_args.all_examples, nq_i)
            IN /\ all_predictions' = DictSet(all_predictions, example.qas_id,
                                             <<nbest_json[1].text, example.all_answers>>)
               /\ all_nbest_json' = DictSet(all_nbest_json, example.qas_id, nbest_json)
               /\ nq_nbest' = <<nbest_json>>
       /\ nq_prelim' = c.prelim_predictions
       /\ nq_result' = c.result
  /\ nq_i' = nq_i + 1
  /\ UNCHANGED <<nq_pc, nq_args, nq_files, f1s, ems>>

\* lines 880-932 and 1005-1011: a question with a cutoff list
NqQuestionCutoff ==
  /\ nq_pc = "loop" /\ nq_i < Len(nq_args.all_examples)
  /\ ~IsNone(nq_args.n_paragraphs)
  /\ \E c \in {NqCollected} :
       /\ ~IsNone(c.result)
       /\ \E lists \in {[k \in 1..Len(The(nq_args.n_paragraphs)) |->
                            get_nbest_json(PrelimBelow(c.prelim_predictions,
                                                       The(nq_args.n_paragraphs)[k]),
                                           At(nq_args.example_index_to_features, nq_i),
                                           The(c.result).switch3, nq_args)]} :
            LET example == At(nq_args.all_examples, nq_i)
            IN /\ all_predictions' = DictSet(all_predictions, example.qas_id,
                                             [k \in 1..Len(lists) |-> lists[k][1].text])
               /\ all_nbest_json' = DictSet(all_nbest_json, example.qas_id, <<>>)
               /\ nq_nbest' = lists
       /\ nq_prelim' = c.prelim_predictions
       /\ nq_result' = c.result
  /\ nq_i' = nq_i + 1
  /\ UNCHANGED <<nq_pc, nq_args, nq_files, f1s, ems>>

\* lines 1013-1021: the two files, after the last question
NqWrite ==
  /\ nq_pc = "loop" /\ nq_i = Len(nq_args.all_examples)
  /\ nq_files' = Some([predictions |-> all_predictions, nbest |-> all_nbest_json])
  /\ nq_pc' = "written"
  /\ UNCHANGED <<nq_args, nq_i, nq_result, all_predictions, all_nbest_json,
                 nq_prelim, nq_nbest, f1s, ems>>

\* max([f1_score(prediction, gt)[0] for gt in groundtruth]) and the same with
\* exact_match_score: the value is left uninterpreted
max_score(fn, prediction, groundtruth) ==
  [fn |-> fn, prediction |-> prediction, groundtruth |-> groundtruth]

\* all_predictions.values(): the values in the order their keys were inserted
dict_values ==
  [e \in 1..Len(nq_args.all_examples) |-> all_predictions[nq_args.all_examples[e].qas_id]]

\* lines 1023-1031: the accumulator of one metric without a cutoff list
metric_flat(fn, values) ==
  [k \in 1..Len(values) |->
     IF Len(values[k][2]) = 0 THEN 0 ELSE max_score(fn, values[k][1], values[k][2])]

\* lines 1033-1045: the accumulators of one metric with a cutoff list; the
\* last element of a stored list is read as the ground truth
metric_cutoff(fn, values, n_paragraphs) ==
  [i \in 1..Len(n_paragraphs) |->
     Concat([k \in 1..Len(values) |->
               LET groundtruth == values[k][Len(values[k])]
                   predictions_ == SubSeq(values[k], 1, Len(values[k]) - 1)
               IN IF Len(groundtruth) = 0 THEN <<0>>
                  ELSE IF i <= Len(predictions_)
                       THEN <<max_score(fn, predictions_[i], groundtruth)>>
                       ELSE <<>>])]

\* lines 1023-1049: the metric step
NqMetrics ==
  /\ nq_pc = "written"
  /\ IF IsNone(nq_args.n_paragraphs)
     THEN /\ f1s' = metric_flat("f1_score", dict_values)
          /\ ems' = metric_flat("exact_match_score", dict_values)
     ELSE /\ f1s' = metric_cutoff("f1_score", dict_values, The(nq_args.n_paragraphs))
          /\ ems' = metric_cutoff("exact_match_score", dict_values,
                                  The(nq_args.n_paragraphs))
  /\ nq_pc' = "returned"
  /\ UNCHANGED <<nq_args, nq_i, nq_result, all_predictions, all_nbest_json,
                 nq_prelim, nq_nbest, nq_files>>

\* ------------------------------------------------ _check_is_max_context

MaxSpans == 3
MaxSpanStart == 1
MaxSpanLen == 2

\* a scan that keeps the latest of the spans with the best score
RECURSIVE max_context_scan_last(_, _, _, _)
max_context_scan_last(doc_spans, span_index, position, best) ==
  IF span_index >= Len(doc_spans) THEN best
  ELSE LET doc_span == At(doc_spans, span_index)
           end == doc_span.start + doc_span.length - 1
           score == 100 * Min2(position - doc_span.start, end - position)
                    + doc_span.length
       IN IF position < doc_span.start \/ position > end
          THEN max_context_scan_last(doc_spans, span_index + 1, position, best)
          ELSE IF IsNone(best) \/ score >= The(best).best_score
               THEN max_context_scan_last(doc_spans, span_index + 1, position,
                      Some([best_score |-> score, best_span_index |-> span_index]))
               ELSE max_context_scan_last(doc_spans, span_index + 1, position, best)

\* lines 101-114: the loop from span_index on; best is None or the best score
\* and its span index so far.  Scores are kept in hundredths, which is exact
\* for span lengths below 100: min(...) + 0.01 * length becomes
\* 100 * min(...) + length.
RECURSIVE max_context_scan(_, _, _, _)
max_context_scan(doc_spans, span_index, position, best) ==
  IF span_index >= Len(doc_spans) THEN best
  ELSE LET doc_span == At(doc_spans, span_index)
           end == doc_span.start + doc_span.length - 1
           num_left_context == position - doc_span.start
           num_right_context == end - position
           score == 100 * Min2(num_left_context, num_right_context) + doc_span.length
       IN IF position < doc_span.start \/ position > end
          THEN max_context_scan(doc_spans, span_index + 1, position, best)
          ELSE IF IsNone(best) \/ score > The(best).best_score
               THEN max_context_scan(doc_spans, span_index + 1, position,
                      Some([best_score |-> score, best_span_index |-> span_index]))
               ELSE max_context_scan(doc_spans, span_index + 1, position, best)

_check_is_max_context(doc_spans, cur_span_index, position) ==
  \E best \in {max_context_scan(doc_spans, 0, position, None)} :
     ~IsNone(best) /\ cur_span_index = The(best).best_span_index

\* the spans [0,6), [4,9), [7,12)
ExampleSpans == <<[start |-> 0, length |-> 6], [start |-> 4, length |-> 5],
                  [start |-> 7, length |-> 5]>>
DocSpans == {[start |-> a, length |-> l] : a \in 0..MaxSpanStart, l \in 1..MaxSpanLen}
CheckInputs ==
  {[fn |-> "_check_is_max_context", doc_spans |-> d, position |-> p] :
     d \in UNION {[1..n -> DocSpans] : n \in 0..MaxSpans},
     p \in 0..(MaxSpanStart + MaxSpanLen)}
  \cup {[fn |-> "_check_is_max_context", doc_spans |-> ExampleSpans, position |-> 8]}

\* the answers for every span index of the list
CheckIsMaxContext ==
  /\ fn_pc = "call" /\ fn_in.fn = "_check_is_max_context"
  /\ fn_out' = [cur_span_index \in 0..(Len(fn_in.doc_spans) - 1) |->
                  _check_is_max_context(fn_in.doc_spans, cur_span_index, fn_in.position)]
  /\ fn_pc' = "returned"
  /\ UNCHANGED fn_in

\* ------------------------------------------------- _improve_answer_span

MaxDocTokens == 3

\* a search that tries the first start only
RECURSIVE improve_scan_first_start(_, _, _, _, _, _)
improve_scan_first_start(doc_tokens, input_start, input_end, new_start, new_end, tok) ==
  IF new_start > input_end \/ new_end < new_start THEN <<input_start, input_end>>
  ELSE IF str_join(<<" ">>, Slice(doc_tokens, new_start, new_end + 1)) = tok
       THEN <<new_start, new_end>>
       ELSE improve_scan_first_start(doc_tokens, input_start, input_end, new_start,
                                     new_end - 1, tok)

\* lines 73-79: the two loops, from the pair (new_start, new_end) on
RECURSIVE improve_scan(_, _, _, _, _, _)
improve_scan(doc_tokens, input_start, input_end, new_start, new_end, tok_answer_text) ==
  IF new_start > input_end THEN <<input_start, input_end>>
  ELSE IF new_end < new_start
       THEN improve_scan(doc_tokens, input_start, input_end, new_start + 1, input_end,
                         tok_answer_text)
       ELSE IF str_join(<<" ">>, Slice(doc_tokens, new_start, new_end + 1))
                 = tok_answer_text
            THEN <<new_start, new_end>>
            ELSE improve_scan(doc_tokens, input_start, input_end, new_start,
                              new_end - 1, tok_answer_text)

\* the tokenizer handed in is the one that split the document into doc_tokens
_improve_answer_span(doc_tokens, input_start, input_end, orig_answer_text) ==
  improve_scan(doc_tokens, input_start, input_end, input_start, input_end,
               str_join(<<" ">>, BasicTokenizer_tokenize(orig_answer_text, TRUE)))

\* the tokens ( 1895 - 1943 ) . and the gold answer 1895
ExampleDocTokens == << <<"(">>, <<"1", "8", "9", "5">>, <<"-">>, <<"1", "9", "4", "3">>,
                       <<")">>, <<".">> >>
AnswerTexts == {<<>>, <<"a">>, <<"b">>, <<"A">>, <<"a", " ", "b">>, <<"b", ".">>,
                <<"a", "b">>, <<" ", "b", " ", " ", "a">>}
ImproveInputs ==
  LET docs == UNION {[1..n -> {<<"a">>, <<"b">>, <<".">>}] : n \in 1..MaxDocTokens}
      spans == UNION {{<<d, i, j>> : i \in 0..(Len(d) - 1), j \in 0..(Len(d) - 1)} :
                        d \in docs}
  IN {[fn |-> "_improve_answer_span", doc_tokens |-> a[1], input_start |-> a[2],
       input_end |-> a[3], orig_answer_text |-> t] :
        a \in {sp \in spans : sp[2] <= sp[3]}, t \in AnswerTexts}
  \cup {[fn |-> "_improve_answer_span", doc_tokens |-> ExampleDocTokens, input_start |-> 0,
         input_end |-> 5, orig_answer_text |-> <<"1", "8", "9", "5">>]}

ImproveAnswerSpan ==
  /\ fn_pc = "call" /\ fn_in.fn = "_improve_answer_span"
  /\ fn_out' = _improve_answer_span(fn_in.doc_tokens, fn_in.input_start, fn_in.input_end,
                                    fn_in.orig_answer_text)
  /\ fn_pc' = "returned"
  /\ UNCHANGED fn_in

\* --------------------------------------- get_final_text, nq_get_final_text

MaxTextLen == 3

\* predicted texts: empty, in or not in the original text, starting or ending
\* with a space
PredTexts == {<<>>, <<"a">>, <<".">>, <<" ">>, <<"a", "a">>, <<"a", " ", ".">>,
              <<"a", ".">>, <<" ", "a">>, <<"a", " ">>, <<"a", " ", "a">>}

\* the texts handed to the alignment
AlignInputs ==
  {[fn |-> f, pred_text |-> p, orig_text |-> o, do_lower_case |-> lc] :
     f \in {"get_final_text", "nq_get_final_text"},
     p \in PredTexts,
     o \in UNION {[1..n -> {"a", "A", " ", ".", "^"}] : n \in 0..MaxTextLen},
     lc \in BOOLEAN}

GetFinalText ==
  /\ fn_pc = "call" /\ fn_in.fn = "get_final_text"
  /\ fn_out' = get_final_text(fn_in.pred_text, fn_in.orig_text, fn_in.do_lower_case)
  /\ fn_pc' = "returned"
  /\ UNCHANGED fn_in

NqGetFinalText ==
  /\ fn_pc = "call" /\ fn_in.fn = "nq_get_final_text"
  /\ fn_out' = nq_get_final_text(fn_in.pred_text, fn_in.orig_text, fn_in.do_lower_case)
  /\ fn_pc' = "returned"
  /\ UNCHANGED fn_in

\* ------------------------------------------- float_to_int8, int8_to_float

QuantUnit == 4
MaxQuantNum == 132
MaxFactor == 3

\* numbers and offsets counted in 1/QuantUnit
QuantInputs ==
  {[fn |-> "float_to_int8", num |-> x, offset |-> o, factor |-> f, keep_zeros |-> kz] :
     x \in (-MaxQuantNum * QuantUnit)..(MaxQuantNum * QuantUnit),
     o \in {-QuantUnit - 1, 0, 2}, f \in 1..MaxFactor, kz \in BOOLEAN}

FloatToInt8 ==
  /\ fn_pc = "call" /\ fn_in.fn = "float_to_int8"
  /\ fn_out' = [code |-> float_to_int8(fn_in.num, fn_in.offset, fn_in.factor,
                                       fn_in.keep_zeros, QuantUnit)]
  /\ fn_pc' = "encoded"
  /\ UNCHANGED fn_in

\* the code decoded with the offset and the factor it was encoded with
Int8ToFloat ==
  /\ fn_pc = "encoded"
  /\ fn_out' = [code |-> fn_out.code,
                decoded |-> int8_to_float(fn_out.code, fn_in.offset, fn_in.factor,
                                          fn_in.keep_zeros, QuantUnit)]
  /\ fn_pc' = "returned"
  /\ UNCHANGED fn_in

\* ------------------------------------------------------ one function call

FnInit ==
  /\ fn_pc = "call" /\ fn_out = None
  /\ fn_in \in CheckInputs \cup ImproveInputs \cup AlignInputs \cup QuantInputs

\* --------------------------------------------------------- specifications

\* a function that is not running
Hdf5Idle ==
  /\ all_results = <<>> /\ dense_offset = None
  /\ c_pc = "idle" /\ count = 0 /\ features = <<>>
  /\ inqueue = <<>> /\ outqueue = <<>>
  /\ a_pc = "idle" /\ a_out = None /\ w_pc = "idle"
  /\ h5file = <<>> /\ pushed = 0 /\ written = <<>>
  /\ puts = [inqueue |-> <<>>, outqueue |-> <<>>]
MetaIdle ==
  /\ m_pc = "idle" /\ m_in = <<>> /\ m_md = Raise("none") /\ m_out = Raise("none")
PredIdle ==
  /\ p_pc = "idle" /\ p_args = <<>> /\ p_n = 0
  /\ predictions = <<>> /\ scores = <<>> /\ p_best = <<>> /\ p_seen = {}
  /\ prediction_file = None /\ score_file = None
NqIdle ==
  /\ nq_pc = "idle" /\ nq_args = <<>> /\ nq_i = 0 /\ nq_result = None
  /\ all_predictions = <<>> /\ all_nbest_json = <<>>
  /\ nq_prelim = <<>> /\ nq_nbest = <<>> /\ nq_files = None
  /\ f1s = <<>> /\ ems = <<>>
FnIdle ==
  /\ fn_pc = "idle" /\ fn_in = <<>> /\ fn_out = None

\* write_hdf5: the caller and the two threads, interleaved
InitHdf5 == Hdf5Init /\ MetaIdle /\ PredIdle /\ NqIdle /\ FnIdle
Hdf5Next ==
  \/ CallerIter /\ UNCHANGED <<metaVars, predVars, nqVars, fnVars>>
  \/ CallerLastPut /\ UNCHANGED <<metaVars, predVars, nqVars, fnVars>>
  \/ CallerPutNone /\ UNCHANGED <<metaVars, predVars, nqVars, fnVars>>
  \/ CallerJoinP /\ UNCHANGED <<metaVars, predVars, nqVars, fnVars>>
  \/ CallerJoinWrite /\ UNCHANGED <<metaVars, predVars, nqVars, fnVars>>
  \/ AddGet /\ UNCHANGED <<metaVars, predVars, nqVars, fnVars>>
  \/ AddPut /\ UNCHANGED <<metaVars, predVars, nqVars, fnVars>>
  \/ AddPutNone /\ UNCHANGED <<metaVars, predVars, nqVars, fnVars>>
  \/ WriteGet /\ UNCHANGED <<metaVars, predVars, nqVars, fnVars>>
SpecHdf5 == InitHdf5 /\ [][Hdf5Next]_vars

\* get_metadata followed by filter_metadata on one document
InitMeta == MetaInit /\ Hdf5Idle /\ PredIdle /\ NqIdle /\ FnIdle
NextMeta ==
  \/ MetaExtract /\ UNCHANGED <<hdf5Vars, predVars, nqVars, fnVars>>
  \/ MetaFilter /\ UNCHANGED <<hdf5Vars, predVars, nqVars, fnVars>>
SpecMeta == InitMeta /\ [][NextMeta]_vars

\* write_predictions
InitPred == PredInit /\ Hdf5Idle /\ MetaIdle /\ NqIdle /\ FnIdle
NextPred ==
  \/ PredResult /\ UNCHANGED <<hdf5Vars, metaVars, nqVars, fnVars>>
  \/ PredWrite /\ UNCHANGED <<hdf5Vars, metaVars, nqVars, fnVars>>
SpecPred == InitPred /\ [][NextPred]_vars

\* write_predictions_nq
InitNq == NqInit /\ Hdf5Idle /\ MetaIdle /\ PredIdle /\ FnIdle
NextNq ==
  \/ NqNoFeatures /\ UNCHANGED <<hdf5Vars, metaVars, predVars, fnVars>>
  \/ NqUnbound /\ UNCHANGED <<hdf5Vars, metaVars, predVars, fnVars>>
  \/ NqQuestion /\ UNCHANGED <<hdf5Vars, metaVars, predVars, fnVars>>
  \/ NqQuestionCutoff /\ UNCHANGED <<hdf5Vars, metaVars, predVars, fnVars>>
  \/ NqWrite /\ UNCHANGED <<hdf5Vars, metaVars, predVars, fnVars>>
  \/ NqMetrics /\ UNCHANGED <<hdf5Vars, metaVars, predVars, fnVars>>
SpecNq == InitNq /\ [][NextNq]_vars

\* one call of a function without state
InitFn == FnInit /\ Hdf5Idle /\ MetaIdle /\ PredIdle /\ NqIdle
NextFn ==
  \/ CheckIsMaxContext /\ UNCHANGED <<hdf5Vars, metaVars, predVars, nqVars>>
  \/ ImproveAnswerSpan /\ UNCHANGED <<hdf5Vars, metaVars, predVars, nqVars>>
  \/ GetFinalText /\ UNCHANGED <<hdf5Vars, metaVars, predVars, nqVars>>
  \/ NqGetFinalText /\ UNCHANGED <<hdf5Vars, metaVars, predVars, nqVars>>
  \/ FloatToInt8 /\ UNCHANGED <<hdf5Vars, metaVars, predVars, nqVars>>
  \/ Int8ToFloat /\ UNCHANGED <<hdf5Vars, metaVars, predVars, nqVars>>
SpecFn == InitFn /\ [][NextFn]_vars

\* ------------------------------------------------------------ properties

\* the caller has put the sentinel on inqueue and no thread can take a step:
\* the caller has returned or waits in a join for a thread that has not
\* ended, the transform thread has ended or waits on a queue, and so does the
\* write thread
AllBlocked ==
  /\ c_pc \in {"join_p", "join_write", "returned"}
  /\ ~(c_pc = "join_p" /\ a_pc \in {"done", "dead"})
  /\ ~(c_pc = "join_write" /\ w_pc = "done")
  /\ ~(a_pc = "get" /\ inqueue # <<>>)
  /\ ~(a_pc \in {"put", "put_none"} /\ ~queue_full(outqueue))
  /\ ~(w_pc = "get" /\ outqueue # <<>>)

\* C1: in write_hdf5, once the caller has pushed the sentinel, the transform
\* thread and the write thread both stop, the two joins complete and
\* write_hdf5 returns, whatever the corpus
\* (a thread that can take a step is scheduled, so the run fails to end only
\* in a state where no thread can take a step)
C1_Terminates ==
  c_pc \in {"join_p", "join_write", "returned"} =>
    \/ c_pc = "returned" /\ a_pc = "done" /\ w_pc = "done"
    \/ ~AllBlocked

\* C2: in write_hdf5, the records are persisted in the order in which the
\* caller put their groups on inqueue, in every interleaving
C2_PersistedInPushOrder ==
  \A i, j \in 1..Len(written) : i < j => written[i] < written[j]
\* two groups have been persisted
C2_Witness == Len(written) >= 2 /\ written[1] = 1 /\ written[2] = 2

\* C3: in write_hdf5, every group the caller puts on inqueue is persisted by
\* the write thread, exactly once: no group is persisted twice, and once no
\* thread can take a step the persisted groups are the pushed ones
C3_EveryGroupPersistedOnce ==
  /\ \A i, j \in 1..Len(written) : written[i] = written[j] => i = j
  /\ AllBlocked =>
       /\ Len(written) = pushed
       /\ \A k \in 1..pushed : \E i \in 1..Len(written) : written[i] = k

\* the Results of the corpus carry no sparse data
NoSparse == all_results # <<>> /\ \A k \in 1..Len(all_results) : IsNone(all_results[k].result.start_sp)

\* C4: when the Results carry no sparse data, extraction followed by
\* filter_metadata succeeds in the transform thread, and every group in the
\* index file written by this run has the eight dense datasets and no other
C4_NoSparseStillPersisted ==
  NoSparse =>
    /\ a_pc # "dead"
    /\ \A did \in DOMAIN h5file :
         h5file[did] # StaleGroup =>
           DOMAIN h5file[did].datasets =
             {"start", "end", "span_logits", "start2end", "word2char_start",
              "word2char_end", "f2o_start", "f2o_end"}

\* C5: in write_predictions_nq, no list returned by get_nbest_json holds two
\* entries with the same text
C5_NoDuplicateTexts ==
  \A n \in 1..Len(nq_nbest) : \A i, j \in 1..Len(nq_nbest[n]) :
    i # j => nq_nbest[n][i].text # nq_nbest[n][j].text

\* C6: in write_predictions_nq with a cutoff list, the prediction stored for
\* a question is a list of length len(n_paragraphs) + 1 whose last element
\* is the gold answers of the Example
C6_CutoffListEndsWithGold ==
  ~IsNone(nq_args.n_paragraphs) =>
    \A e \in 1..nq_i :
      LET example == nq_args.all_examples[e]
          stored == all_predictions[example.qas_id]
      IN /\ example.qas_id \in DOMAIN all_predictions
         /\ Len(stored) = Len(The(nq_args.n_paragraphs)) + 1
         /\ stored[Len(stored)] = example.all_answers

\* C7: in write_predictions, a question with an admissible candidate has as
\* stored score the highest all_logits value over its admissible candidates,
\* and as stored text the text of the first candidate, in the order of
\* iteration, that has this score
C7_BestAdmissibleStored ==
  \A q \in QasIds :
    ~IsNone(p_best[q]) =>
      /\ q \in DOMAIN scores /\ q \in DOMAIN predictions
      /\ scores[q] = The(p_best[q]).score
      /\ predictions[q] = The(p_best[q]).phrase
\* after the run, a question holds the text "a" of the first of several
\* candidates with the highest score 2
C7_Witness ==
  /\ p_pc = "written" /\ p_n >= 2 /\ p_args.max_answer_length = MaxAnswerLen + 1
  /\ "q1" \in DOMAIN scores /\ scores["q1"] = 2 /\ predictions["q1"] = <<"a">>
  /\ "q2" \notin p_seen

\* C8: in write_predictions, predictions and scores have the same question
\* ids, a question without an admissible candidate is in neither, and the
\* scores file holds for each question the negation of its stored score
C8_SameIdsNegatedScores ==
  /\ DOMAIN predictions = DOMAIN scores
  /\ \A q \in p_seen : IsNone(p_best[q]) => q \notin DOMAIN predictions \cup DOMAIN scores
  /\ p_pc = "written" =>
       /\ prediction_file = Some(predictions)
       /\ DOMAIN The(score_file) = DOMAIN scores
       /\ \A q \in DOMAIN scores : The(score_file)[q] = -scores[q]
\* after the run, one question has a stored score and the other, whose
\* Results were processed, has no admissible candidate
C8_Witness ==
  /\ p_pc = "written" /\ p_seen = {"q1", "q2"}
  /\ DOMAIN scores = {"q1"} /\ The(score_file)["q1"] = -2

\* the question at position e of all_examples has no admissible span
NoAdmissibleSpan(e) ==
  \A k \in 1..Len(nq_args.example_index_to_features[e]) :
    LET feature == nq_args.example_index_to_features[e][k]
    IN \A i \in DOMAIN feature.token_to_word_map :
         ~DictGet(feature.token_is_max_context, i, FALSE)

\* C9: write_predictions_nq never aborts on a question, with or without a
\* cutoff list, and a processed question that has no Features or no
\* admissible span has the text "empty" as its prediction
C9_NeverAborts ==
  /\ nq_pc \in {"loop", "written"}
  /\ \A e \in 1..nq_i :
       LET example == nq_args.all_examples[e]
           stored == all_predictions[example.qas_id]
       IN /\ example.qas_id \in DOMAIN all_predictions
          /\ NoAdmissibleSpan(e) =>
               IF IsNone(nq_args.n_paragraphs)
               THEN stored[1] = TextEmpty
               ELSE \A k \in 1..Len(stored) : stored[k] = TextEmpty

\* C10: after filter_metadata on a record of get_metadata, a non-negative
\* entry of start2end is below the length of the filtered end array, and an
\* entry whose original end index did not pass the filter is -1
C10_RemappedStart2End ==
  m_pc = "filtered" =>
    LET before == m_md.val
        after == m_out.val
    IN \A r \in 1..Len(after.start2end) : \A c \in 1..Len(after.start2end[r]) :
         LET long == At(before.start2end, after.f2o_start[r])[c]
         IN /\ after.start2end[r][c] >= 0 => after.start2end[r][c] < Len(after.end)
            /\ (long >= 0 /\ long < Len(before.filter_end)
                 /\ ~(At(before.filter_end, long) > m_in.threshold))
                 => after.start2end[r][c] = -1
\* a filtered record in which one end index was remapped to a smaller
\* number and another, whose end did not pass, became -1
C10_Witness ==
  /\ m_pc = "filtered"
  /\ \E r \in 1..Len(m_out.val.start2end) : \E c \in 1..Len(m_out.val.start2end[r]) :
       LET long == At(m_md.val.start2end, m_out.val.f2o_start[r])[c]
       IN m_out.val.start2end[r][c] >= 0 /\ m_out.val.start2end[r][c] < long
  /\ \E r \in 1..Len(m_out.val.start2end) : \E c \in 1..Len(m_out.val.start2end[r]) :
       LET long == At(m_md.val.start2end, m_out.val.f2o_start[r])[c]
       IN long >= 0 /\ m_out.val.start2end[r][c] = -1

RunStarts ==
  {1} \cup {k \in 2..Len(all_results) :
              /\ all_results[k].feature.doc_span_index = 0
              /\ all_results[k].feature.example.par_idx = 0}
run_start(o) == CHOOSE k \in RunStarts : Cardinality({m \in RunStarts : m <= k}) = o
run_idxs(o) ==
  LET last == IF o = Cardinality(RunStarts) THEN Len(all_results) ELSE run_start(o + 1) - 1
  IN [i \in 1..(last - run_start(o) + 1) |-> run_start(o) + i - 1]
\* the record the transform makes of the o-th run
run_record(o) ==
  pool_func(GroupFeatures(Group(run_idxs(o), o)), GroupResults(Group(run_idxs(o), o)),
            max_answer_length, TRUE, filter_threshold).val

\* C12: the index file holds one group per document id; the group of an id
\* that was written holds exactly what the write creates for the last record
\* written for that id, and a group no record was written for is the one the
\* file held at the start
C12_GroupIsLastRecord ==
  \A key \in DOMAIN h5file :
     LET hits == {i \in 1..Len(written) : py_str(run_record(written[i]).did) = key}
     IN IF hits = {}
        THEN key = py_str(1) /\ h5file[key] = StaleGroup
        ELSE h5file[key] =
               h5_group(run_record(written[CHOOSE i \in hits : \A j \in hits : j <= i]))
\* two records of the same document id were written and a third of another
C12_Witness ==
  /\ Len(written) = 3
  /\ run_record(written[1]).did = run_record(written[2]).did
  /\ run_record(written[3]).did # run_record(written[2]).did
  /\ run_record(written[1]) # run_record(written[2])
  /\ DOMAIN h5file = {py_str(1), py_str(2)}

\* C19: the groups put on inqueue are the runs of all_results, in order: the
\* k-th group put holds exactly the positions of the k-th run, and once the
\* loop has ended there were as many puts as runs
C19_GroupsAreRuns ==
  /\ pushed <= Cardinality(RunStarts)
  /\ c_pc # "loop" => pushed = Cardinality(RunStarts)
  /\ \A i \in 1..Len(inqueue) :
       ~IsNone(inqueue[i]) =>
          /\ The(inqueue[i]).ord <= pushed
          /\ The(inqueue[i]).idxs = run_idxs(The(inqueue[i]).ord)
\* the second group put holds two Results, the later one the first window
\* of a paragraph other than paragraph 0
C19_Witness ==
  /\ pushed = 2
  /\ \E i \in 1..Len(inqueue) :
       /\ ~IsNone(inqueue[i]) /\ The(inqueue[i]).ord = 2
       /\ The(inqueue[i]).idxs = <<2, 3>>
       /\ all_results[3].feature.doc_span_index = 0
       /\ all_results[3].feature.example.par_idx # 0

\* C20: each queue gets at most one sentinel and no item after it, the write
\* thread persists nothing once it has taken the sentinel, and when no
\* thread can take a step each queue was given exactly one sentinel
C20_OneSentinelLast ==
  /\ \A q \in {"inqueue", "outqueue"} :
       /\ \A i \in 1..Len(puts[q]) : puts[q][i] = "None" => i = Len(puts[q])
       /\ AllBlocked => puts[q] # <<>> /\ puts[q][Len(puts[q])] = "None"
  /\ w_pc = "done" => Len(written) = Len(puts.outqueue) - 1

\* C13: when write_predictions_nq returns, every accumulator of F1 and of
\* exact match holds one value per question, and the value of a question with
\* no gold answer is 0, with and without a cutoff list
C13_ZeroGoldScoresZero ==
  nq_pc = "returned" =>
    LET accumulators == IF IsNone(nq_args.n_paragraphs) THEN <<f1s, ems>> ELSE f1s \o ems
    IN \A a \in 1..Len(accumulators) :
          /\ Len(accumulators[a]) = Len(nq_args.all_examples)
          /\ \A e \in 1..Len(nq_args.all_examples) :
               nq_args.all_examples[e].all_answers = <<>> => accumulators[a][e] = 0

\* the Prelim Predictions handed to the k-th call of get_nbest_json for the
\* last question
nbest_supplied(k) ==
  IF IsNone(nq_args.n_paragraphs) THEN nq_prelim
  ELSE PrelimBelow(nq_prelim, The(nq_args.n_paragraphs)[k])

\* C14: every list get_nbest_json returns has between 1 and n_best_size
\* entries, and the list for no Prelim Prediction is the single entry with
\* text "empty" and logit 0
C14_NBestSize ==
  \A k \in 1..Len(nq_nbest) :
     /\ Len(nq_nbest[k]) >= 1 /\ Len(nq_nbest[k]) <= nq_args.n_best_size
     /\ nbest_supplied(k) = <<>> =>
          /\ Len(nq_nbest[k]) = 1
          /\ nq_nbest[k][1].text = TextEmpty /\ nq_nbest[k][1].logit = 0
\* one call without Prelim Prediction and one with more than n_best_size
C14_Witness ==
  /\ Len(nq_nbest) = 2 /\ nq_args.n_best_size = 2
  /\ nbest_supplied(1) = <<>> /\ nq_nbest[1][1].text = TextEmpty
  /\ Len(nbest_supplied(2)) > 2 /\ Len(nq_nbest[2]) = 2

\* the spans of the call that contain the position, and the score of one
FnCovering ==
  {k \in 0..(Len(fn_in.doc_spans) - 1) :
     /\ At(fn_in.doc_spans, k).start <= fn_in.position
     /\ fn_in.position < At(fn_in.doc_spans, k).start + At(fn_in.doc_spans, k).length}
FnContext(k) ==
  LET span == At(fn_in.doc_spans, k)
      left == fn_in.position - span.start
      right == span.start + span.length - 1 - fn_in.position
  IN 100 * (IF left < right THEN left ELSE right) + span.length

\* C15: for a position inside at least one span _check_is_max_context is
\* true for exactly one span index, the earliest of the spans holding the
\* position with the largest min(left, right) + 0.01 * length; for a
\* position in no span it is false for every index; for the spans [0,6),
\* [4,9), [7,12) and position 8 it is true for the third span
C15_OneMaxContextSpan ==
  (fn_pc = "returned" /\ fn_in.fn = "_check_is_max_context") =>
     LET chosen == {k \in DOMAIN fn_out : fn_out[k]}
     IN /\ FnCovering = {} => chosen = {}
        /\ FnCovering # {} =>
             \E k \in FnCovering :
                /\ chosen = {k}
                /\ \A j \in FnCovering :
                     \/ FnContext(j) < FnContext(k)
                     \/ FnContext(j) = FnContext(k) /\ k <= j
        /\ (fn_in.doc_spans = ExampleSpans /\ fn_in.position = 8) => chosen = {2}
\* the call for the spans [0,6), [4,9), [7,12) and position 8 has returned
C15_Witness ==
  /\ fn_pc = "returned" /\ fn_in.fn = "_check_is_max_context"
  /\ fn_in.doc_spans = ExampleSpans /\ fn_in.position = 8
  /\ fn_out = (0 :> FALSE @@ 1 :> FALSE @@ 2 :> TRUE)

\* the sub-ranges of [input_start, input_end] whose tokens, joined by
\* spaces, are the tokenized gold answer
FnMatches ==
  {sp \in (fn_in.input_start..fn_in.input_end) \X (fn_in.input_start..fn_in.input_end) :
     /\ sp[1] <= sp[2]
     /\ str_join(<<" ">>, SubSeq(fn_in.doc_tokens, sp[1] + 1, sp[2] + 1))
          = str_join(<<" ">>, BasicTokenizer_tokenize(fn_in.orig_answer_text, TRUE))}

\* C16: _improve_answer_span returns the matching sub-range with the
\* smallest start and, for that start, the largest end, and the input span
\* when no sub-range matches; for ( 1895 - 1943 ) . and the gold answer 1895
\* it returns the span of the token 1895
C16_FirstLongestMatch ==
  (fn_pc = "returned" /\ fn_in.fn = "_improve_answer_span") =>
     /\ FnMatches = {} => fn_out = <<fn_in.input_start, fn_in.input_end>>
     /\ FnMatches # {} =>
          /\ fn_out \in FnMatches
          /\ \A sp \in FnMatches :
               fn_out[1] < sp[1] \/ (fn_out[1] = sp[1] /\ sp[2] <= fn_out[2])
     /\ fn_in.doc_tokens = ExampleDocTokens => fn_out = <<1, 1>>
\* the call for ( 1895 - 1943 ) . with the gold answer 1895 has returned
C16_Witness ==
  /\ fn_pc = "returned" /\ fn_in.fn = "_improve_answer_span"
  /\ fn_in.doc_tokens = ExampleDocTokens /\ fn_in.input_start = 0 /\ fn_in.input_end = 5
  /\ fn_out = <<1, 1>>

\* the alignment of the call fails: pred_text is not in the re-tokenized
\* orig_text, or the two texts differ in length once their spaces are
\* removed, or the first or the last character of the hit is a space of the
\* re-tokenized text and so has no place in the text without spaces
FnAlignFails ==
  LET tok_text == str_join(<<" ">>, BasicTokenizer_tokenize(fn_in.orig_text,
                                                          fn_in.do_lower_case))
      start_position == str_find(tok_text, fn_in.pred_text)
      end_position == start_position + Len(fn_in.pred_text) - 1
      NoSpaces(t) == SelectSeq(t, LAMBDA c : c # " ")
      Unmapped(q) == q < 0 \/ q >= Len(tok_text) \/ tok_text[q + 1] = " "
  IN \/ start_position = -1
     \/ Len(NoSpaces(fn_in.orig_text)) # Len(NoSpaces(tok_text))
     \/ Unmapped(start_position)
     \/ Unmapped(end_position)

\* C17: when the alignment fails get_final_text returns (0, len(orig_text))
\* and nq_get_final_text returns orig_text; when it succeeds get_final_text
\* returns offsets (s, e) with 0 <= s < e <= len(orig_text); both always
\* return
C17_AlignmentFallbacks ==
  /\ (fn_pc = "returned" /\ fn_in.fn = "get_final_text") =>
       IF FnAlignFails THEN fn_out = <<0, Len(fn_in.orig_text)>>
       ELSE 0 <= fn_out[1] /\ fn_out[1] < fn_out[2] /\ fn_out[2] <= Len(fn_in.orig_text)
  /\ (fn_pc = "returned" /\ fn_in.fn = "nq_get_final_text" /\ FnAlignFails) =>
       fn_out = fn_in.orig_text
\* get_final_text has returned offsets inside the text for a text of
\* which the tokenizer changes a letter
C17_Witness ==
  /\ fn_pc = "returned" /\ fn_in.fn = "get_final_text" /\ ~FnAlignFails
  /\ fn_in.orig_text = <<" ", "A", ".">> /\ fn_in.pred_text = <<"a">>
  /\ fn_out = <<1, 2>>

\* (x - offset) * factor lies in [-128, 127]: the encoding does not clip
FnNoClipping ==
  /\ -128 * QuantUnit <= (fn_in.num - fn_in.offset) * fn_in.factor
  /\ (fn_in.num - fn_in.offset) * fn_in.factor <= 127 * QuantUnit

\* C18: the code float_to_int8 returns lies in [-128, 127]; with keep_zeros
\* the number 0 gets the code 0; and without keep_zeros and without
\* clipping, decoding the code with int8_to_float gives a number at most
\* 1/factor away from the one encoded
C18_QuantRoundTrip ==
  (fn_pc \in {"encoded", "returned"} /\ fn_in.fn = "float_to_int8") =>
     /\ -128 <= fn_out.code /\ fn_out.code <= 127
     /\ (fn_in.keep_zeros /\ fn_in.num = 0) => fn_out.code = 0
     /\ (fn_pc = "returned" /\ ~fn_in.keep_zeros /\ FnNoClipping) =>
          /\ fn_out.decoded - fn_in.num * fn_in.factor <= QuantUnit
          /\ fn_in.num * fn_in.factor - fn_out.decoded <= QuantUnit
\* a number halfway between two codes was encoded without clipping with an
\* offset other than 0 and decoded to another number
C18_Witness ==
  /\ fn_pc = "returned" /\ fn_in.fn = "float_to_int8" /\ ~fn_in.keep_zeros
  /\ FnNoClipping /\ fn_in.offset # 0 /\ fn_in.factor > 1
  /\ 2 * (((fn_in.num - fn_in.offset) * fn_in.factor) % QuantUnit) = QuantUnit
  /\ fn_out.decoded # fn_in.num * fn_in.factor

\* C21: inqueue and outqueue never hold more items than their capacity; a
\* thread whose put finds the queue full, and a thread whose get finds the
\* queue empty, stays where it is until another thread has changed the queue
C21_QueuesBlock ==
  [][/\ Len(inqueue') <= QueueCap /\ Len(outqueue') <= QueueCap
     /\ Len(inqueue) >= QueueCap => puts'.inqueue = puts.inqueue
     /\ Len(outqueue) >= QueueCap => puts'.outqueue = puts.outqueue
     /\ (inqueue = <<>> /\ a_pc = "get") => a_pc' = "get"
     /\ (outqueue = <<>> /\ w_pc = "get") => w_pc' = "get" /\ written' = written
    ]_vars
\* the transform thread waits with a record while outqueue is full
C21_Witness ==
  /\ Len(outqueue) = QueueCap /\ a_pc = "put" /\ ~IsNone(a_out)
  /\ inqueue = <<None>> /\ c_pc = "join_p" /\ written = <<>>

\* the Features of the question handled last, the no-answer logit of the
\* k-th of them, and its admissible (start, end) pairs
LastFeatures == At(nq_args.example_index_to_features, nq_i - 1)
LastSwitch3(k) ==
  unique_id_to_result(nq_args.all_results, LastFeatures[k].unique_id).switch3
LastAdmissible(k) ==
  LET feature == LastFeatures[k]
      L == Len(feature.tokens)
  IN {sp \in (0..(L - 1)) \X (0..(L - 1)) :
        /\ sp[1] <= sp[2] /\ sp[2] - sp[1] <= 9
        /\ sp[1] \in DOMAIN feature.token_to_word_map
        /\ sp[2] \in DOMAIN feature.token_to_word_map
        /\ sp[1] \in DOMAIN feature.token_is_max_context
        /\ feature.token_is_max_context[sp[1]]}

\* C22: without a cutoff list the Prelim Predictions of a question all come
\* from the earliest of its Features with the lowest switch[3], carry the
\* negated switch[3] of that Feature as logit and are at most n_best_size;
\* with a cutoff list every admissible pair of every Feature is a Prelim
\* Prediction
C22_PrelimFromBestFeature ==
  (nq_i > 0 /\ nq_pc \in {"loop", "written", "returned"}) =>
    IF IsNone(nq_args.n_paragraphs)
    THEN /\ Len(nq_prelim) <= nq_args.n_best_size
         /\ \A n \in 1..Len(nq_prelim) :
              LET k == nq_prelim[n].feature_index + 1
              IN /\ k \in 1..Len(LastFeatures)
                 /\ nq_prelim[n].logit = -LastSwitch3(k)
                 /\ \A j \in 1..Len(LastFeatures) :
                      \/ LastSwitch3(k) < LastSwitch3(j)
                      \/ LastSwitch3(k) = LastSwitch3(j) /\ k <= j
    ELSE \A k \in 1..Len(LastFeatures) : \A sp \in LastAdmissible(k) :
           \E n \in 1..Len(nq_prelim) :
              /\ nq_prelim[n].feature_index = k - 1
              /\ nq_prelim[n].start_index = sp[1] /\ nq_prelim[n].end_index = sp[2]
              /\ nq_prelim[n].logit = -LastSwitch3(k)
\* without a cutoff list, the candidates of a question come from its second
\* Feature, whose no-answer logit is the lower one
C22_Witness ==
  /\ nq_i = 1 /\ nq_pc = "loop" /\ IsNone(nq_args.n_paragraphs)
  /\ Len(LastFeatures) = 2 /\ LastSwitch3(2) < LastSwitch3(1)
  /\ LastAdmissible(1) # {}
  /\ Len(nq_prelim) = 2 /\ nq_prelim[1].feature_index = 1

\* C23: in a record of get_metadata, for the row idx of the token at window
\* position i of a Feature with L tokens and a column k below
\* max_answer_length, start2end is idx + k and span_logits is the Result's
\* span_logits[i, i + k] when i + k <= L - 2, and they are -1 and 0
\* otherwise; so a non-negative entry of start2end is a row of the same
\* Feature, below the number of rows
C23_SpanTable ==
  m_md.ok =>
    \A n \in 1..Len(m_in.features) :
      LET L == Len(m_in.features[n].tokens)
          first == SumSeq([m \in 1..(n - 1) |-> Len(m_in.features[m].tokens) - 2])
      IN \A i \in 1..(L - 2) : \A k \in 0..(m_in.max_answer_length - 1) :
           LET idx == first + i - 1
               s2e == At(At(m_md.val.start2end, idx), k)
               logit == At(At(m_md.val.span_logits, idx), k)
           IN /\ Len(At(m_md.val.start2end, idx)) = m_in.max_answer_length
              /\ IF i + k <= L - 2
                 THEN s2e = idx + k /\ logit = res_span_logits(m_in.results[n], i, i + k)
                 ELSE s2e = -1 /\ logit = 0
              /\ s2e >= 0 => /\ s2e < Len(m_md.val.start)
                             /\ first <= s2e /\ s2e < first + L - 2
\* a record of two Features: the last token of the first Feature has no
\* span of two tokens, its first token has one
C23_Witness ==
  /\ m_md.ok /\ Len(m_in.features) = 2 /\ m_in.max_answer_length = 2
  /\ Len(m_in.features[1].tokens) = 4 /\ Len(m_md.val.start) > 2
  /\ m_md.val.start2end[1] = <<0, 1>> /\ m_md.val.start2end[2] = <<1, -1>>

\* C24: after filter_metadata on a record of get_metadata, f2o_start and
\* f2o_end are strictly increasing, a non-negative entry s in column k of
\* row r of start2end satisfies f2o_end[s] = f2o_start[r] + k, the arrays
\* start, span_logits, start2end and f2o_start have one row count, and end
\* and f2o_end have one row count
C24_FilteredMapsConsistent ==
  m_pc = "filtered" =>
    LET after == m_out.val
    IN /\ \A a, b \in 1..Len(after.f2o_start) : a < b => after.f2o_start[a] < after.f2o_start[b]
       /\ \A a, b \in 1..Len(after.f2o_end) : a < b => after.f2o_end[a] < after.f2o_end[b]
       /\ \A r \in 1..Len(after.start2end) : \A c \in 1..Len(after.start2end[r]) :
            LET s == after.start2end[r][c]
            IN s >= 0 => /\ s < Len(after.f2o_end)
                         /\ At(after.f2o_end, s) = after.f2o_start[r] + (c - 1)
       /\ Len(after.start) = Len(after.f2o_start)
       /\ Len(after.span_logits) = Len(after.f2o_start)
       /\ Len(after.start2end) = Len(after.f2o_start)
       /\ Len(after.end) = Len(after.f2o_end)
\* a filtered record that lost a start row and an end row ahead of a kept
\* span of two tokens
C24_Witness ==
  /\ m_pc = "filtered"
  /\ Len(m_out.val.f2o_start) < Len(m_md.val.start)
  /\ Len(m_out.val.f2o_end) < Len(m_md.val.end)
  /\ \E r \in 1..Len(m_out.val.start2end) :
       /\ Len(m_out.val.start2end[r]) >= 2
       /\ m_out.val.start2end[r][2] >= 0
       /\ m_out.val.f2o_start[r] > r - 1
       /\ At(m_out.val.f2o_end, m_out.val.start2end[r][2]) > m_out.val.start2end[r][2]

\* the score of a (start, end) pair in the k-th Feature of the question
\* handled last, the order of collection of two pairs of one Feature, and
\* the earliest Feature with the lowest no-answer logit
LastScore(k, sp) ==
  LET result == unique_id_to_result(nq_args.all_results, LastFeatures[k].unique_id)
  IN At(result.start_logits, sp[1]) + At(result.end_logits, sp[2])
LastBefore(k, a, b) ==
  \/ LastScore(k, a) > LastScore(k, b)
  \/ /\ LastScore(k, a) = LastScore(k, b)
     /\ (a[1] < b[1] \/ (a[1] = b[1] /\ a[2] < b[2]))
LastBest ==
  CHOOSE k \in 1..Len(LastFeatures) :
    \A j \in 1..Len(LastFeatures) :
      \/ LastSwitch3(k) < LastSwitch3(j)
      \/ LastSwitch3(k) = LastSwitch3(j) /\ k <= j

\* C25: after the final sort the Prelim Predictions of one Feature are in
\* the order of descending start_logit + end_logit, the enumeration order on
\* ties; without a cutoff list the prediction of a question is the text of
\* the first admissible pair in that order within the earliest Feature with
\* the lowest no-answer logit
C25_FinalPredictionIsBestSpan ==
  (nq_i > 0 /\ nq_pc \in {"loop", "written", "returned"} /\ Len(LastFeatures) > 0) =>
    /\ \A n, m \in 1..Len(nq_prelim) :
         (n < m /\ nq_prelim[n].feature_index = nq_prelim[m].feature_index) =>
           LastBefore(nq_prelim[n].feature_index + 1,
                      <<nq_prelim[n].start_index, nq_prelim[n].end_index>>,
                      <<nq_prelim[m].start_index, nq_prelim[m].end_index>>)
    /\ (IsNone(nq_args.n_paragraphs) /\ LastAdmissible(LastBest) # {}) =>
         LET best == CHOOSE sp \in LastAdmissible(LastBest) :
                       \A other \in LastAdmissible(LastBest) \ {sp} :
                         LastBefore(LastBest, sp, other)
             qas_id == At(nq_args.all_examples, nq_i - 1).qas_id
         IN /\ nq_prelim # <<>>
            /\ nq_prelim[1].start_index = best[1] /\ nq_prelim[1].end_index = best[2]
            /\ all_predictions[qas_id][1] =
                 nq_final_text([feature_index |-> LastBest - 1,
                                start_index |-> best[1], end_index |-> best[2]],
                               LastFeatures, nq_args.do_lower_case)
\* without a cutoff list, two candidates of equal score and different text
\* from the second Feature of a question: the prediction is the text of the
\* one enumerated first
C25_Witness ==
  /\ nq_i = 1 /\ nq_pc = "loop" /\ IsNone(nq_args.n_paragraphs)
  /\ Len(LastFeatures) = 2 /\ LastBest = 2
  /\ Len(nq_prelim) = 2
  /\ LastScore(2, <<nq_prelim[1].start_index, nq_prelim[1].end_index>>)
       = LastScore(2, <<nq_prelim[2].start_index, nq_prelim[2].end_index>>)
  /\ nq_prelim[1].start_index < nq_prelim[2].start_index
  /\ nq_nbest[1][1].text # nq_nbest[1][2].text
  /\ all_predictions["q1"][1] = nq_nbest[1][1].text

\* C26: without a cutoff list the entries of the n-best list of a question
\* carry one logit, and the softmax gives each entry of a list of n entries
\* the probability exp(0) / (n * exp(0)) = 1 / n, the top entry included
C26_UniformProbability ==
  IsNone(nq_args.n_paragraphs) =>
    /\ \A q \in DOMAIN all_nbest_json : \A a, b \in 1..Len(all_nbest_json[q]) :
         all_nbest_json[q][a].logit = all_nbest_json[q][b].logit
    /\ \A l \in 1..Len(nq_nbest) : \A a \in 1..Len(nq_nbest[l]) :
         /\ nq_nbest[l][a].probability.num = [exp |-> 0]
         /\ nq_nbest[l][a].probability.total_sum
              = [b \in 1..Len(nq_nbest[l]) |-> [exp |-> 0]]
         /\ nq_nbest[l][a].probability = nq_nbest[l][1].probability
\* without a cutoff list, an n-best list of two different texts whose spans
\* differ in start_logit + end_logit
C26_Witness ==
  /\ nq_i = 1 /\ nq_pc = "loop" /\ IsNone(nq_args.n_paragraphs)
  /\ Len(nq_nbest) = 1 /\ Len(nq_nbest[1]) = 2 /\ Len(nq_prelim) = 2
  /\ nq_nbest[1][1].text # nq_nbest[1][2].text
  /\ LastScore(LastBest, <<nq_prelim[1].start_index, nq_prelim[1].end_index>>)
       > LastScore(LastBest, <<nq_prelim[2].start_index, nq_prelim[2].end_index>>)
  /\ all_nbest_json["q1"] = nq_nbest[1]

====
